---- MODULE Spec2Model ----
(***************************************************************************)
(* Model of src/core.py and src/app.py: the provider gateway               *)
(* (AIProviderManager), its vendor adapters, the feedback recorder         *)
(* (MinimalChatBot.add_feedback), the generation and correction methods of *)
(* MinimalChatBot, the button handler of the page, and the config store    *)
(* (ConfigManager)                                                         *)
(***************************************************************************)
EXTENDS Integers, Sequences, FiniteSets, TLC

VARIABLES
    providers_config,   \* AIProviderManager.providers_config (fixed after __init__)
    environ,            \* names of the environment variables that hold a key
    rate_limits,        \* AIProviderManager.rate_limits: provider -> bucket -> count
    now,                \* int(time.time() // 60), the current minute-bucket
    pc,                 \* position of the running generate_text call
    preferred_provider, \* argument of the running generate_text call
    idx,                \* position of the for loop in fallback_order
    attempts,           \* history: the _try_provider calls of the running call
    outcome,            \* how the last generate_text call ended
    passed,             \* history: rate-limit checks passed per provider in bucket now
    invoked,            \* history: adapter invocations per provider in bucket now
    adapter_in,         \* one adapter run: the vendor and the HTTP response
    adapter_out,        \* one adapter run: what the adapter returned
    learning_data,      \* the persisted learning_data.json document
    fb_call,            \* history: the add_feedback calls made and the last one
    fb_log,             \* history: every feedback entry, in insertion order
    writers,            \* add_feedback calls of concurrent sessions under way
    chat,               \* the running MinimalChatBot call and what it returned
    page,               \* the Streamlit page: the request made and what it shows
    disk,               \* the config directory: what each JSON file holds
    store               \* history: the last ConfigManager operation and its result

gatewayVars == <<providers_config, environ, rate_limits, now, pc, preferred_provider,
                 idx, attempts, outcome, passed, invoked>>
adapterVars == <<adapter_in, adapter_out>>
feedbackVars == <<learning_data, fb_call, fb_log, writers>>
chatVars == <<chat, page>>
configVars == <<disk, store>>
vars == <<gatewayVars, adapterVars, feedbackVars, chatVars, configVars>>

(***************************************************************************)
(* Strings.  A text is modelled by its leading whitespace, its body (which *)
(* neither starts nor ends with whitespace) and its trailing whitespace.   *)
(***************************************************************************)
Text(lead, core, trail) == [lead |-> lead, core |-> core, trail |-> trail]

\* str.strip(): a text whose body is empty is all whitespace and strips to ""
Strip(t) == Text(0, t.core, 0)

\* len(str)
StrLen(t) == t.lead + t.core + t.trail

TextSamples == {Text(0, 0, 0), Text(2, 0, 1), Text(1, 20, 1), Text(0, 21, 0),
                Text(1, 21, 0), Text(1, 50, 1), Text(2, 60, 1)}

(***************************************************************************)
(* HTTP responses and JSON bodies.  A response is a flat record; Body      *)
(* builds the JSON value it carries.  JSON values are tagged: "obj" with   *)
(* a function from keys, "arr" with a sequence, "str" with a text, "null". *)
(***************************************************************************)
Obj(f) == [t |-> "obj", v |-> f]
Arr(s) == [t |-> "arr", v |-> s]
Str(x) == [t |-> "str", v |-> x]
Null == [t |-> "null", v |-> Text(0, 0, 0)]
\* Python's None as a return value, and a raised exception
PyNone == [t |-> "none", v |-> Text(0, 0, 0)]
Raised == [t |-> "exception", v |-> Text(0, 0, 0)]

Envelopes == {"gemini", "chat", "hf", "together", "cohere"}
Shapes == {"complete", "no_text_field", "empty_list", "text_not_string",
           "no_envelope", "root_null", "root_array", "not_json"}

Responses ==
    [transport : {"connection_error", "timeout", "no_requests_module"}, status : {200},
     envelope : {"chat"}, shape : {"complete"}, text : {Text(2, 60, 1)}]
    \cup [transport : {"ok"}, status : {401, 429, 500},
          envelope : Envelopes, shape : {"complete"}, text : {Text(2, 60, 1)}]
    \cup [transport : {"ok"}, status : {200}, envelope : Envelopes,
          shape : Shapes \ {"complete"}, text : {Text(2, 60, 1)}]
    \cup [transport : {"ok"}, status : {200}, envelope : Envelopes,
          shape : {"complete"}, text : TextSamples]

\* the text field of an envelope: a string, or a value of another type
TextField(r) == IF r.shape = "text_not_string" THEN Arr(<<>>) ELSE Str(r.text)

\* an object holding the text under key, or the empty object
Field(r, key) == IF r.shape = "no_text_field" THEN Obj(<<>>)
                 ELSE Obj([k \in {key} |-> TextField(r)])

\* a list holding one item, or none
Items(r, item) == IF r.shape = "empty_list" THEN Arr(<<>>) ELSE Arr(<<item>>)

\* response.json(): the parsed body; Raised when the body is not JSON
Body(r) ==
    IF r.shape = "not_json" THEN Raised
    ELSE IF r.shape = "root_null" THEN Null
    ELSE IF r.shape = "root_array" THEN Arr(<<Null>>)
    ELSE IF r.shape = "no_envelope" THEN Obj([k \in {"error"} |-> Null])
    ELSE IF r.envelope = "gemini" THEN
        Obj([k \in {"candidates"} |->
            Items(r, Obj([k2 \in {"content"} |->
                Obj([k3 \in {"parts"} |-> Arr(<<Field(r, "text")>>)])]))])
    ELSE IF r.envelope = "chat" THEN
        Obj([k \in {"choices"} |->
            Items(r, Obj([k2 \in {"message"} |-> Field(r, "content")]))])
    ELSE IF r.envelope = "hf" THEN
        Items(r, Field(r, "generated_text"))
    ELSE IF r.envelope = "together" THEN
        Obj([k \in {"output"} |->
            Obj([k2 \in {"choices"} |-> Items(r, Field(r, "text"))])])
    ELSE
        Obj([k \in {"generations"} |-> Items(r, Field(r, "text"))])

(***************************************************************************)
(* Python operations on JSON values; each yields Raised where Python       *)
(* raises, and passes on a Raised operand.                                 *)
(***************************************************************************)
\* "key in value" raises on a value that is no container
InRaises(j) == j.t \notin {"obj", "arr", "str"}

\* key in value
Contains(j, key) == j.t = "obj" /\ key \in DOMAIN j.v

\* value[key]
Item(j, key) ==
    IF j.t = "obj" /\ key \in DOMAIN j.v THEN j.v[key] ELSE Raised

\* value.get(key, default)
DictGet(j, key, default) ==
    IF j.t # "obj" THEN Raised
    ELSE IF key \in DOMAIN j.v THEN j.v[key] ELSE default

\* value[0]
First(j) == IF j.t = "arr" /\ Len(j.v) > 0 THEN j.v[1] ELSE Raised

\* len(value) raises on a value that has no length
LenRaises(j) == j.t \notin {"obj", "arr", "str"}

\* len(value)
Length(j) == IF j.t = "arr" THEN Len(j.v)
             ELSE IF j.t = "obj" THEN Cardinality(DOMAIN j.v)
             ELSE StrLen(j.v)

\* bool(value)
Truthy(j) == j.t \in {"obj", "arr", "str"} /\ Length(j) > 0

\* value.strip()
JStrip(j) == IF j.t = "str" THEN Str(Strip(j.v)) ELSE Raised

PlausibleLen == 20

\* the plausibility filter with >= in place of >
PlausibleAtLeast(text) ==
    IF text.t # "str" THEN Raised
    ELSE IF StrLen(text.v) >= PlausibleLen THEN text ELSE PyNone

\* "if len(text) > 20: return text", falling through to "return None"
Plausible(text) ==
    IF text.t # "str" THEN Raised
    ELSE IF StrLen(text.v) > PlausibleLen THEN text ELSE PyNone

\* try: ... except Exception: return None
Caught(ret) == IF ret.t = "exception" THEN PyNone ELSE ret

\* "if requests is None: return None", requests.post(..., timeout=30), which
\* raises on a network error or a timeout, and "if response.status_code == 200:"
\* around the parsing of the body
Request(r, parsed) ==
    IF r.transport = "no_requests_module" THEN PyNone
    ELSE IF r.transport # "ok" THEN Raised
    ELSE IF r.status # 200 THEN PyNone
    ELSE parsed

GeminiBody(r) ==
    LET result == Body(r)
        candidates == DictGet(result, "candidates", Arr(<<>>))
        content == DictGet(First(candidates), "content", Obj(<<>>))
        parts == DictGet(content, "parts", Arr(<<>>))
        text == JStrip(DictGet(First(parts), "text", Str(Text(0, 0, 0))))
    IN  IF candidates.t = "exception" THEN Raised
        ELSE IF ~Truthy(candidates) THEN PyNone
        ELSE IF LenRaises(candidates) THEN Raised
        ELSE IF parts.t = "exception" THEN Raised
        ELSE IF ~Truthy(parts) THEN PyNone
        ELSE IF text.t = "exception" THEN Raised
        ELSE IF ~Truthy(text) THEN PyNone
        ELSE Plausible(text)

_call_gemini(r) ==
    Caught(Request(r, GeminiBody(r)))

\* the envelope shared by _call_groq and _call_openai
ChatBody(r) ==
    LET result == Body(r)
        choices == Item(result, "choices")
    IN  IF result.t = "exception" \/ InRaises(result) THEN Raised
        ELSE IF ~Contains(result, "choices") THEN PyNone
        ELSE IF LenRaises(choices) THEN Raised
        ELSE IF ~(Length(choices) > 0) THEN PyNone
        ELSE Plausible(JStrip(Item(Item(First(choices), "message"), "content")))

_call_groq(r) ==
    Caught(Request(r, ChatBody(r)))

_call_openai(r) ==
    Caught(Request(r, ChatBody(r)))

HuggingfaceBody(r) ==
    LET result == Body(r)
    IN  IF result.t = "exception" THEN Raised
        ELSE IF ~(result.t = "arr" /\ Length(result) > 0) THEN PyNone
        ELSE Plausible(JStrip(DictGet(First(result), "generated_text",
                                      Str(Text(0, 0, 0)))))

_call_huggingface(r) ==
    Caught(Request(r, HuggingfaceBody(r)))

TogetherBody(r) ==
    LET result == Body(r)
        output == Item(result, "output")
        choices == Item(output, "choices")
    IN  IF result.t = "exception" \/ InRaises(result) THEN Raised
        ELSE IF ~Contains(result, "output") THEN PyNone
        ELSE IF InRaises(output) THEN Raised
        ELSE IF ~Contains(output, "choices") THEN PyNone
        ELSE IF LenRaises(choices) THEN Raised
        ELSE IF ~(Length(choices) > 0) THEN PyNone
        ELSE Plausible(JStrip(DictGet(First(choices), "text", Str(Text(0, 0, 0)))))

_call_together(r) ==
    Caught(Request(r, TogetherBody(r)))

CohereBody(r) ==
    LET result == Body(r)
        generations == Item(result, "generations")
    IN  IF result.t = "exception" \/ InRaises(result) THEN Raised
        ELSE IF ~Contains(result, "generations") THEN PyNone
        ELSE IF LenRaises(generations) THEN Raised
        ELSE IF ~(Length(generations) > 0) THEN PyNone
        ELSE Plausible(JStrip(Item(First(generations), "text")))

_call_cohere(r) ==
    Caught(Request(r, CohereBody(r)))

VendorNames == {"groq", "huggingface", "together", "cohere", "openai", "gemini"}

\* the if/elif chain of _try_provider: the adapter of a vendor name
Adapter(provider_name, r) ==
    CASE provider_name = "groq" -> _call_groq(r)
      [] provider_name = "huggingface" -> _call_huggingface(r)
      [] provider_name = "together" -> _call_together(r)
      [] provider_name = "cohere" -> _call_cohere(r)
      [] provider_name = "openai" -> _call_openai(r)
      [] provider_name = "gemini" -> _call_gemini(r)
      [] OTHER -> PyNone

(***************************************************************************)
(* The provider registry (ai_providers.json) and the environment.          *)
(***************************************************************************)
ProviderNames == {"gemini", "groq", "mistral"}

\* the absent preferred_provider argument (preferred_provider = None)
NoProvider == "None"

api_key_env(name) ==
    CASE name = "gemini" -> "GEMINI_API_KEY"
      [] name = "groq" -> "GROQ_API_KEY"
      [] OTHER -> "MISTRAL_API_KEY"

\* rate_limit settings: {"calls_per_minute": n}, the key left out, a value that
\* is no object, and an object whose calls_per_minute is no number
Calls(n) == [kind |-> "calls", calls_per_minute |-> n]
RateUnset == [kind |-> "unset", calls_per_minute |-> 0]
RateNotDict == [kind |-> "not_dict", calls_per_minute |-> 0]
RateNotNumber == [kind |-> "not_number", calls_per_minute |-> 0]

\* one entry of "providers"
Entry(name, enabled, rate_limit) ==
    [is_dict |-> TRUE, enabled |-> enabled, api_key_env |-> api_key_env(name),
     rate_limit |-> rate_limit]
EntryNotDict(name) ==
    [is_dict |-> FALSE, enabled |-> FALSE, api_key_env |-> api_key_env(name),
     rate_limit |-> RateUnset]

MaxOrderLen == 2

FallbackOrders == UNION {[1..n -> ProviderNames] : n \in 0..MaxOrderLen}

\* registries of the shape the data model describes
WellFormedFiles ==
    {[fallback_order |-> fo,
      providers |-> [p \in {"gemini", "groq"} |->
                        Entry(p, en[p], Calls(IF p = "gemini" THEN 1 ELSE 2))]] :
        fo \in FallbackOrders, en \in [{"gemini", "groq"} -> BOOLEAN]}
    \cup
    {[fallback_order |-> <<"mistral", "gemini">>,
      providers |-> [p \in {"mistral", "gemini"} |-> Entry(p, TRUE, Calls(1))]],
     [fallback_order |-> <<"gemini", "groq">>,
      providers |-> [p \in {"gemini", "groq"} |->
                        Entry(p, TRUE, Calls(IF p = "gemini" THEN 0 ELSE 1))]],
     [fallback_order |-> <<"groq">>,
      providers |-> [p \in {} |-> Entry(p, TRUE, Calls(1))]]}

\* registries with wrongly shaped entries or rate_limit settings
MalformedFiles ==
    {[fallback_order |-> <<"gemini", "groq">>,
      providers |-> [p \in {"gemini", "groq"} |->
                        IF p = "gemini" THEN bad ELSE Entry(p, TRUE, Calls(2))]] :
        bad \in {EntryNotDict("gemini"), Entry("gemini", TRUE, RateNotDict),
                 Entry("gemini", TRUE, RateNotNumber)}}

Environments == {keys \cup {"MISTRAL_API_KEY"} :
                    keys \in SUBSET {"GEMINI_API_KEY", "GROQ_API_KEY"}}

(***************************************************************************)
(* AIProviderManager                                                       *)
(***************************************************************************)
DefaultCallsPerMinute == 60
MaxMinute == 2

WarmCalls == 58

NoLimits == [p \in {} |-> 0]

\* "if current_calls >= calls_per_minute: return True", with > in place of >=
AtCeilingOffByOne(current_calls, calls_per_minute) == current_calls > calls_per_minute

\* "if current_calls >= calls_per_minute: return True"
AtCeiling(current_calls, calls_per_minute) == current_calls >= calls_per_minute

\* "old_keys = [key for key in provider_limits.keys() if key < minute_key - 1]"
\* with the deletion loop left out: no bucket is removed
old_keys_kept(provider_limits, minute_key) == {}

\* "old_keys = [key for key in provider_limits.keys() if key < minute_key - 1]"
old_keys(provider_limits, minute_key) ==
    {key \in DOMAIN provider_limits : key < minute_key - 1}

\* "provider_limits[minute_key] = current_calls + 1" without the + 1
NotIncremented(current_calls) == current_calls

\* "provider_limits[minute_key] = current_calls + 1"
Incremented(current_calls) == current_calls + 1

\* _is_rate_limited with self.rate_limits = limits at minute_key = int(now // 60).
\* raised: an exception leaves the method; limits: self.rate_limits afterwards.
_is_rate_limited(limits, provider_name, provider_config, minute_key) ==
    LET rate_limit == provider_config.rate_limit
        calls_per_minute == IF rate_limit.kind = "calls"
                            THEN rate_limit.calls_per_minute
                            ELSE DefaultCallsPerMinute
        provider_limits == IF provider_name \in DOMAIN limits
                           THEN limits[provider_name] ELSE NoLimits
        kept == DOMAIN provider_limits \ old_keys(provider_limits, minute_key)
        current_calls == IF minute_key \in kept THEN provider_limits[minute_key] ELSE 0
        Stored(window) == [p \in DOMAIN limits \cup {provider_name} |->
                              IF p = provider_name THEN window ELSE limits[p]]
        pruned == [key \in kept |-> provider_limits[key]]
        counted == [key \in kept \cup {minute_key} |->
                       IF key = minute_key THEN Incremented(current_calls)
                       ELSE provider_limits[key]]
    IN  IF rate_limit.kind = "not_dict"
        THEN [raised |-> TRUE, limited |-> FALSE, limits |-> limits]
        ELSE IF rate_limit.kind = "not_number"
        THEN [raised |-> TRUE, limited |-> FALSE, limits |-> Stored(pruned)]
        ELSE IF AtCeiling(current_calls, calls_per_minute)
        THEN [raised |-> FALSE, limited |-> TRUE, limits |-> Stored(pruned)]
        ELSE [raised |-> FALSE, limited |-> FALSE, limits |-> Stored(counted)]

\* "if not api_key: return None" left out: every provider counts as configured
HasKeyUnchecked(name) == TRUE

\* os.getenv(name) is truthy
HasKey(name) == name \in environ

\* the envelope a vendor answers in
EnvelopeOf(provider_name) ==
    CASE provider_name \in {"groq", "openai"} -> "chat"
      [] provider_name = "huggingface" -> "hf"
      [] provider_name \in {"together", "cohere", "gemini"} -> provider_name
      [] OTHER -> "chat"

\* what the vendor of provider_name may answer to one request of the gateway:
\* a network error, status 500, and its envelope with a text that is too
\* short, just long enough for the adapter, as long as MinimalChatBot still
\* turns down, or long; the other failures of a vendor end in the same None
Answers(provider_name) ==
    {r \in Responses :
        /\ r.envelope = EnvelopeOf(provider_name) \/ r.transport # "ok"
        /\ r.transport \in {"ok", "connection_error"}
        /\ r.status \in {200, 500}
        /\ r.shape = "complete"
        /\ r.text \in {Text(1, 20, 1), Text(0, 21, 0), Text(1, 50, 1), Text(2, 60, 1)}}

\* what _try_provider hands back: its return value and self.rate_limits
Tried(provider_name, step, ret, limits) ==
    [name |-> provider_name, step |-> step, ret |-> ret, limits |-> limits]

\* _try_provider(provider_name, ...) when the vendor answers r
_try_provider(limits, provider_name, r, minute_key) ==
    LET providers == providers_config.providers
        provider_config == providers[provider_name]
        check == _is_rate_limited(limits, provider_name, provider_config, minute_key)
    IN  IF provider_name \notin DOMAIN providers
        THEN Tried(provider_name, "not_in_providers", PyNone, limits)
        ELSE IF ~provider_config.is_dict
        THEN Tried(provider_name, "not_a_dict", PyNone, limits)
        ELSE IF ~provider_config.enabled
        THEN Tried(provider_name, "disabled", PyNone, limits)
        ELSE IF ~HasKey(provider_config.api_key_env)
        THEN Tried(provider_name, "no_api_key", PyNone, limits)
        ELSE IF check.raised
        THEN Tried(provider_name, "raised", Raised, check.limits)
        ELSE IF check.limited
        THEN Tried(provider_name, "rate_limited", PyNone, check.limits)
        ELSE IF provider_name \notin VendorNames
        THEN Tried(provider_name, "no_adapter", PyNone, check.limits)
        ELSE Tried(provider_name, "adapter", Caught(Adapter(provider_name, r)),
                   check.limits)

\* one line of the log of _try_provider calls
Logged(t) == [name |-> t.name, step |-> t.step, ret |-> t.ret]

\* "if result:" on what _try_provider returned
Usable(ret) == ret.t = "str" /\ StrLen(ret.v) > 0

Range(seq) == {seq[i] : i \in 1..Len(seq)}

Running == [kind |-> "running", ret |-> PyNone]
Returned(ret) == [kind |-> "returned", ret |-> ret]
RaisedOut == [kind |-> "raised", ret |-> Raised]

\* history of the current minute-bucket, kept beside the call
Noted(t) ==
    /\ passed' = [passed EXCEPT ![t.name] =
                     @ + IF t.step \in {"no_adapter", "adapter"} THEN 1 ELSE 0]
    /\ invoked' = [invoked EXCEPT ![t.name] = @ + IF t.step = "adapter" THEN 1 ELSE 0]

\* "if preferred_provider and preferred_provider in fallback_order", without
\* the membership test
PreferredFirstUnchecked(preferred, fallback_order) == preferred # NoProvider

\* "if preferred_provider and preferred_provider in fallback_order"
PreferredFirst(preferred, fallback_order) ==
    preferred # NoProvider /\ preferred \in Range(fallback_order)

\* generate_text is entered: lines 291-295
Enter(preferred) ==
    /\ pc = "idle"
    /\ preferred_provider' = preferred
    /\ attempts' = <<>>
    /\ outcome' = Running
    /\ idx' = 1
    /\ pc' = IF PreferredFirst(preferred, providers_config.fallback_order)
             THEN "preferred" ELSE "loop"
    /\ UNCHANGED <<providers_config, environ, rate_limits, now, passed, invoked>>

\* AIProviderManager.generate_text called on its own
GenerateText(preferred) ==
    /\ Enter(preferred)
    /\ UNCHANGED <<adapterVars, configVars, feedbackVars, chatVars>>

\* the attempt on the preferred provider: lines 295-297
TryPreferred ==
    /\ pc = "preferred"
    /\ \E r \in Answers(preferred_provider) :
        LET t == _try_provider(rate_limits, preferred_provider, r, now)
        IN  /\ attempts' = Append(attempts, Logged(t))
            /\ rate_limits' = t.limits
            /\ Noted(t)
            /\ IF t.ret.t = "exception"
               THEN pc' = "idle" /\ outcome' = RaisedOut
               ELSE IF Usable(t.ret)
               THEN pc' = "idle" /\ outcome' = Returned(t.ret)
               ELSE pc' = "loop" /\ outcome' = outcome
    /\ UNCHANGED <<providers_config, environ, now, preferred_provider, idx>>
    /\ UNCHANGED <<adapterVars, configVars, feedbackVars, chatVars>>

\* one iteration of the loop over fallback_order: lines 300-306
TryNext ==
    /\ pc = "loop"
    /\ idx <= Len(providers_config.fallback_order)
    /\ LET provider_name == providers_config.fallback_order[idx]
       IN  IF provider_name = preferred_provider
           THEN /\ idx' = idx + 1
                /\ UNCHANGED <<pc, outcome, attempts, rate_limits, passed, invoked>>
           ELSE \E r \in Answers(provider_name) :
                LET t == _try_provider(rate_limits, provider_name, r, now)
                IN  /\ attempts' = Append(attempts, Logged(t))
                    /\ rate_limits' = t.limits
                    /\ Noted(t)
                    /\ idx' = idx + 1
                    /\ IF t.ret.t = "exception"
                       THEN pc' = "idle" /\ outcome' = RaisedOut
                       ELSE IF Usable(t.ret)
                       THEN pc' = "idle" /\ outcome' = Returned(t.ret)
                       ELSE pc' = "loop" /\ outcome' = outcome
    /\ UNCHANGED <<providers_config, environ, now, preferred_provider>>
    /\ UNCHANGED <<adapterVars, configVars, feedbackVars, chatVars>>

\* the loop is exhausted: "return None", line 308
ReturnNone ==
    /\ pc = "loop"
    /\ idx > Len(providers_config.fallback_order)
    /\ pc' = "idle"
    /\ outcome' = Returned(PyNone)
    /\ UNCHANGED <<providers_config, environ, rate_limits, now, preferred_provider,
                   idx, attempts, passed, invoked>>
    /\ UNCHANGED <<adapterVars, configVars, feedbackVars, chatVars>>

\* the clock reaches the next minute: time.time() // 60 grows by one
Tick ==
    /\ now < MaxMinute
    /\ now' = now + 1
    /\ passed' = [p \in ProviderNames \cup VendorNames |-> 0]
    /\ invoked' = [p \in ProviderNames \cup VendorNames |-> 0]
    /\ UNCHANGED <<providers_config, environ, rate_limits, pc, preferred_provider,
                   idx, attempts, outcome>>
    /\ UNCHANGED <<adapterVars, configVars, feedbackVars, chatVars>>

\* AIProviderManager.__init__ on the loaded registry: a registry without
\* providers is replaced by the default order over an empty provider map
__init__(file) ==
    IF DOMAIN file.providers = {}
    THEN [fallback_order |-> <<"gemini", "groq", "huggingface", "together", "cohere",
                               "openai">>,
          providers |-> file.providers]
    ELSE file

\* a process that starts at minute 0 with the registry file and the environment
Cold(file, keys) ==
    [file |-> file, environ |-> keys, now |-> 0, rate_limits |-> NoLimits,
     passed |-> [p \in ProviderNames \cup VendorNames |-> 0]]

\* a gateway that has served calls requests through provider_name in the
\* current minute
Warm(file, keys, provider_name, minute_key, calls) ==
    [file |-> file, environ |-> keys, now |-> minute_key,
     rate_limits |-> [p \in {provider_name} |-> [key \in {minute_key} |-> calls]],
     passed |-> [p \in ProviderNames \cup VendorNames |->
                    IF p = provider_name THEN calls ELSE 0]]

DefaultRateFile ==
    [fallback_order |-> <<"groq">>,
     providers |-> [p \in {"groq"} |-> Entry(p, TRUE, RateUnset)]]

Deployments(files) ==
    {Cold(file, keys) : file \in files, keys \in Environments}
    \cup {Warm(DefaultRateFile, {"GROQ_API_KEY"}, "groq", MaxMinute - 1, WarmCalls)}

\* the gateway of deployment d after construction
Deployed(d) ==
    /\ providers_config = __init__(d.file)
    /\ environ = d.environ
    /\ rate_limits = d.rate_limits
    /\ now = d.now
    /\ passed = d.passed
    /\ invoked = d.passed
    /\ pc = "idle"
    /\ preferred_provider = NoProvider
    /\ idx = 1
    /\ attempts = <<>>
    /\ outcome = [kind |-> "none", ret |-> PyNone]

GatewayInit(files) == \E d \in Deployments(files) : Deployed(d)

\* no adapter run is under way
AdapterIdle ==
    /\ adapter_in = [vendor |-> "gemini", r |-> CHOOSE r \in Responses : TRUE]
    /\ adapter_out = [state |-> "idle", ret |-> PyNone]

FeedbackIdle ==
    /\ learning_data = <<>>
    /\ fb_call = <<>>
    /\ fb_log = <<>>
    /\ writers = <<>>

GatewayIdle == GatewayInit({})

\* no MinimalChatBot call is under way
ChatIdle == chat = <<>> /\ page = <<>>

\* the config directory is not looked at
ConfigIdle == disk = <<>> /\ store = <<>>

Init ==
    /\ GatewayInit(WellFormedFiles)
    /\ AdapterIdle
    /\ FeedbackIdle
    /\ ChatIdle
    /\ ConfigIdle

Next ==
    \/ \E preferred \in ProviderNames \cup {NoProvider} : GenerateText(preferred)
    \/ TryPreferred
    \/ TryNext
    \/ ReturnNone
    \/ Tick

Spec == Init /\ [][Next]_vars

\* the gateway on every registry, the wrongly shaped ones included
InitAnyRegistry ==
    /\ GatewayInit(WellFormedFiles \cup MalformedFiles)
    /\ AdapterIdle
    /\ FeedbackIdle
    /\ ChatIdle
    /\ ConfigIdle

SpecAnyRegistry == InitAnyRegistry /\ [][Next]_vars

(***************************************************************************)
(* One vendor adapter on one HTTP response                                 *)
(***************************************************************************)
InitAdapter ==
    /\ adapter_in \in [vendor : VendorNames, r : Responses]
    /\ adapter_out = [state |-> "called", ret |-> PyNone]
    /\ GatewayIdle
    /\ FeedbackIdle
    /\ ChatIdle
    /\ ConfigIdle

\* the adapter of the vendor runs on the response; an exception that leaves
\* it is Raised
CallAdapter ==
    /\ adapter_out.state = "called"
    /\ adapter_out' = [state |-> "returned", ret |-> Adapter(adapter_in.vendor, adapter_in.r)]
    /\ UNCHANGED <<adapter_in, configVars, gatewayVars, feedbackVars, chatVars>>

NextAdapter == CallAdapter

SpecAdapter == InitAdapter /\ [][NextAdapter]_vars

(***************************************************************************)
(* MinimalChatBot.add_feedback and the learning-data document              *)
(***************************************************************************)
MaxHistory == 100
MaxFeedbackCalls == 3

\* str.lower() on one character
LowerChar(c) ==
    CASE c = "A" -> "a"
      [] c = "B" -> "b"
      [] c = "C" -> "c"
      [] c = "D" -> "d"
      [] c = "E" -> "e"
      [] c = "F" -> "f"
      [] c = "G" -> "g"
      [] c = "H" -> "h"
      [] c = "I" -> "i"
      [] c = "J" -> "j"
      [] c = "K" -> "k"
      [] c = "L" -> "l"
      [] c = "M" -> "m"
      [] c = "N" -> "n"
      [] c = "O" -> "o"
      [] c = "P" -> "p"
      [] c = "Q" -> "q"
      [] c = "R" -> "r"
      [] c = "S" -> "s"
      [] c = "T" -> "t"
      [] c = "U" -> "u"
      [] c = "V" -> "v"
      [] c = "W" -> "w"
      [] c = "X" -> "x"
      [] c = "Y" -> "y"
      [] c = "Z" -> "z"
      [] c = "Ñ" -> "ñ"
      [] c = "Í" -> "í"
      [] c = "É" -> "é"
      [] OTHER -> c

\* str.lower(): a string is the sequence of its characters
Lower(str) == [i \in 1..Len(str) |-> LowerChar(str[i])]

\* "keyword in str": keyword occurs in str as a substring
Within(keyword, str) ==
    \E i \in 1..(Len(str) - Len(keyword) + 1) :
        SubSeq(str, i, i + Len(keyword) - 1) = keyword

positive_keywords ==
    <<<<"e", "x", "c", "e", "l", "e", "n", "t", "e">>,
      <<"p", "e", "r", "f", "e", "c", "t", "o">>,
      <<"m", "e", " ", "g", "u", "s", "t", "a">>,
      <<"m", "u", "y", " ", "b", "i", "e", "n">>,
      <<"a", "p", "r", "o", "p", "i", "a", "d", "o">>>>

\* a generated text: len(text.split()) is its number of words
Words(n) == [words |-> n]
WordCount(text) == text.words

\* comments a user may type
NoComment == <<>>
CommentExcelente == <<"E", "x", "c", "e", "l", "e", "n", "t", "e">>
CommentSeveral == <<"p", "e", "r", "f", "e", "c", "t", "o", ",", " ", "m", "e", " ", "g", "u", "s", "t", "a">>
CommentInapropiado == <<"i", "n", "a", "p", "r", "o", "p", "i", "a", "d", "o">>
CommentOk == <<"o", "k">>

\* FeedbackEntry as asdict() stores it
FeedbackEntry(original, generated, rating, comments, timestamp, task_type) ==
    [original_text |-> original, generated_text |-> generated, rating |-> rating,
     comments |-> comments, timestamp |-> timestamp, task_type |-> task_type,
     category |-> "General", option_id |-> "None"]

\* the arguments of one add_feedback call
Call(rating, words, comments) ==
    [original |-> "original", generated |-> Words(words), task_type |-> "generate",
     rating |-> rating, comments |-> comments]

FeedbackInputs ==
    {Call(5, 80, NoComment), Call(5, 300, NoComment), Call(4, 100, CommentExcelente),
     Call(4, 250, CommentSeveral), Call(5, 99, CommentInapropiado),
     Call(4, 251, CommentOk), Call(3, 300, CommentExcelente), Call(1, 80, CommentOk),
     Call(0, 80, NoComment), Call(6, 300, CommentSeveral)}

\* user_preferences as _ensure_default_configs and _update_user_preferences
\* write it when it is absent
DefaultPreferences ==
    [preferred_length |-> "medium", preferred_tone |-> "professional_warm",
     common_corrections |-> <<>>, has_positive_elements |-> FALSE, positive_elements |-> <<>>]

\* the dict load_json gives for a missing or unparsable file: {}
EmptyDict ==
    [file |-> "ok", examples |-> 0, has_feedback_history |-> FALSE,
     feedback_history |-> <<>>, has_user_preferences |-> FALSE,
     user_preferences |-> DefaultPreferences]

\* ConfigManager.load_json("learning_data.json") on the document doc
load_json(doc) == IF doc.file = "ok" THEN doc ELSE EmptyDict

\* "[-100:]" taken from the wrong end: the first 100 entries
FirstHundred(history) ==
    IF Len(history) <= MaxHistory THEN history ELSE SubSeq(history, 1, MaxHistory)

\* learning_data["feedback_history"][-100:]
LastHundred(history) ==
    IF Len(history) <= MaxHistory THEN history
    ELSE SubSeq(history, Len(history) - MaxHistory + 1, Len(history))

\* the length bucket with both boundaries on the wrong side
LengthPreferenceBoundaries(text_length) ==
    IF text_length <= 100 THEN "short"
    ELSE IF text_length >= 250 THEN "long"
    ELSE "medium"

\* the length bucket with the upper threshold misplaced
LengthPreferenceWrongThreshold(text_length) ==
    IF text_length < 100 THEN "short"
    ELSE IF text_length > 300 THEN "long"
    ELSE "medium"

\* the if/elif/else of _update_user_preferences on the word count
LengthPreference(text_length) ==
    IF text_length < 100 THEN "short"
    ELSE IF text_length > 250 THEN "long"
    ELSE "medium"

\* the append without the membership test
AddAlways(listed, comments) == Append(listed, comments)

\* if feedback.comments not in preferences["positive_elements"]: append
AddOnce(listed, comments) ==
    IF \E i \in 1..Len(listed) : listed[i] = comments
    THEN listed ELSE Append(listed, comments)

RECURSIVE NotePositive(_, _, _)
\* the loop over positive_keywords from keyword number k on
NotePositive(preferences, comments, k) ==
    IF k > Len(positive_keywords) THEN preferences
    ELSE IF ~Within(Lower(positive_keywords[k]), Lower(comments))
    THEN NotePositive(preferences, comments, k + 1)
    ELSE LET listed == IF preferences.has_positive_elements
                       THEN preferences.positive_elements ELSE <<>>
             added == AddOnce(listed, comments)
         IN  NotePositive([preferences EXCEPT !.has_positive_elements = TRUE,
                                              !.positive_elements = added],
                          comments, k + 1)

\* "if feedback.rating >= 4" with the threshold one lower
PositiveRatingFromThree(rating) == rating >= 3

\* "if feedback.rating >= 4"
PositiveRating(rating) == rating >= 4

\* _update_user_preferences(learning_data, feedback)
_update_user_preferences(data, feedback) ==
    LET preferences == IF data.has_user_preferences THEN data.user_preferences
                       ELSE DefaultPreferences
        sized == [preferences EXCEPT !.preferred_length =
                     LengthPreference(WordCount(feedback.generated_text))]
        updated == IF PositiveRating(feedback.rating)
                   THEN IF Len(feedback.comments) > 0
                        THEN NotePositive(sized, feedback.comments, 1)
                        ELSE sized
                   ELSE preferences
    IN  [data EXCEPT !.has_user_preferences = TRUE, !.user_preferences = updated]

\* what add_feedback hands to save_json
Recorded(doc, input, timestamp) ==
    LET data == load_json(doc)
        feedback_entry == FeedbackEntry(input.original, input.generated, input.rating,
                                        input.comments, timestamp, input.task_type)
        history == IF data.has_feedback_history THEN data.feedback_history ELSE <<>>
        kept == LastHundred(Append(history, feedback_entry))
    IN  _update_user_preferences(
            [data EXCEPT !.has_feedback_history = TRUE, !.feedback_history = kept],
            feedback_entry)

\* add_feedback(original, generated, task_type, rating, comments): load, append,
\* truncate, update the preferences, save
add_feedback(input) ==
    /\ fb_call.count < MaxFeedbackCalls
    /\ LET timestamp == fb_call.clock + 1
       IN  /\ learning_data' = Recorded(learning_data, input, timestamp)
           /\ fb_call' = [count |-> fb_call.count + 1, clock |-> timestamp,
                          input |-> input,
                          before |-> load_json(learning_data).user_preferences]
           /\ fb_log' = Append(fb_log, FeedbackEntry(input.original, input.generated,
                                   input.rating, input.comments, timestamp,
                                   input.task_type))
    /\ UNCHANGED writers
    /\ UNCHANGED <<gatewayVars, adapterVars, configVars, chatVars>>

\* an entry written before the process started
OldEntry(i) ==
    FeedbackEntry("original", Words(120), (i % 5) + 1, NoComment, i, "correct")

\* a learning-data document holding n feedback entries
Document(n) ==
    [file |-> "ok", examples |-> 4, has_feedback_history |-> TRUE,
     feedback_history |-> [i \in 1..n |-> OldEntry(i)],
     has_user_preferences |-> TRUE, user_preferences |-> DefaultPreferences]

\* documents the process may find: the default one, logs near and beyond the
\* limit, one without the feedback keys, and a file that does not parse
Documents ==
    {Document(n) : n \in {0, MaxHistory - 2, MaxHistory - 1, MaxHistory, MaxHistory + 2}}
    \cup {[Document(0) EXCEPT !.has_feedback_history = FALSE,
                              !.has_user_preferences = FALSE],
          [Document(3) EXCEPT !.file = "malformed"]}

InitFeedback ==
    /\ learning_data \in Documents
    /\ fb_log = load_json(learning_data).feedback_history
    /\ fb_call = [count |-> 0, clock |-> Len(learning_data.feedback_history),
                  input |-> Call(3, 120, NoComment),
                  before |-> load_json(learning_data).user_preferences]
    /\ writers = <<>>
    /\ GatewayIdle
    /\ AdapterIdle
    /\ ChatIdle
    /\ ConfigIdle

NextFeedback == \E input \in FeedbackInputs : add_feedback(input)

SpecFeedback == InitFeedback /\ [][NextFeedback]_vars

(***************************************************************************)
(* add_feedback called by two sessions at once.  Each Streamlit session    *)
(* runs main() in a thread of its own with a MinimalChatBot of its own     *)
(* (app.py:205); the sessions share config/learning_data.json and take no  *)
(* lock.  A call is three steps on the file: load_json reads it,           *)
(* open(path, 'w') empties it, json.dump and the close write the new       *)
(* document from offset 0.                                                 *)
(***************************************************************************)
Sessions == {"A", "B"}

WriterInputs == {Call(5, 80, CommentExcelente), Call(3, 300, CommentOk)}

\* a session that is not inside add_feedback
Resting == [at |-> "resting", input |-> Call(3, 120, NoComment), timestamp |-> 0,
            data |-> EmptyDict]

\* the file right after open(file_path, 'w'): no bytes
Truncated == [EmptyDict EXCEPT !.file = "empty"]

\* the bytes of data followed by what an earlier, longer write left behind
\* them: json.load raises JSONDecodeError ("Extra data")
WithTail(data) == [data EXCEPT !.file = "malformed"]

\* what the file holds after data was written from offset 0 over content.
\* Bytes of content beyond the end of the new document stay; whether there
\* are any depends on the lengths of the two serialisations.
Written(content, data) ==
    IF content.file = "empty" THEN {data} ELSE {data, WithTail(data)}

\* lines 974-996: load_json, the new entry, the truncation to 100 and the
\* preferences, all on the session's own copy
Load(w, input) ==
    /\ writers.calls[w].at = "resting"
    /\ fb_call.count < MaxFeedbackCalls
    /\ LET timestamp == fb_call.clock + 1
       IN  /\ writers' = [calls |-> [writers.calls EXCEPT ![w] =
                                        [at |-> "loaded", input |-> input,
                                         timestamp |-> timestamp,
                                         data |-> Recorded(learning_data, input,
                                                           timestamp)]],
                          events |-> Append(writers.events, <<w, "load">>)]
           /\ fb_call' = [count |-> fb_call.count + 1, clock |-> timestamp,
                          input |-> input,
                          before |-> load_json(learning_data).user_preferences]
           /\ fb_log' = Append(fb_log, FeedbackEntry(input.original, input.generated,
                                   input.rating, input.comments, timestamp,
                                   input.task_type))
    /\ UNCHANGED learning_data
    /\ UNCHANGED <<gatewayVars, adapterVars, configVars, chatVars>>

\* _save_json, line 181: open(file_path, 'w', encoding='utf-8')
Open(w) ==
    /\ writers.calls[w].at = "loaded"
    /\ writers' = [calls |-> [writers.calls EXCEPT ![w].at = "opened"],
                   events |-> Append(writers.events, <<w, "open">>)]
    /\ learning_data' = Truncated
    /\ UNCHANGED <<fb_call, fb_log>>
    /\ UNCHANGED <<gatewayVars, adapterVars, configVars, chatVars>>

\* _save_json, line 182: json.dump into the open file, and the close
Write(w) ==
    /\ writers.calls[w].at = "opened"
    /\ writers' = [calls |-> [writers.calls EXCEPT ![w].at = "resting"],
                   events |-> Append(writers.events, <<w, "write">>)]
    /\ learning_data' \in Written(learning_data, writers.calls[w].data)
    /\ UNCHANGED <<fb_call, fb_log>>
    /\ UNCHANGED <<gatewayVars, adapterVars, configVars, chatVars>>

InitWriters ==
    /\ learning_data \in {Document(0), Document(2), Document(MaxHistory)}
    /\ fb_log = learning_data.feedback_history
    /\ fb_call = [count |-> 0, clock |-> Len(learning_data.feedback_history),
                  input |-> Call(3, 120, NoComment),
                  before |-> learning_data.user_preferences]
    /\ writers = [calls |-> [w \in Sessions |-> Resting], events |-> <<>>]
    /\ GatewayIdle
    /\ AdapterIdle
    /\ ChatIdle
    /\ ConfigIdle

NextWriters ==
    \/ \E w \in Sessions, input \in WriterInputs : Load(w, input)
    \/ \E w \in Sessions : Open(w)
    \/ \E w \in Sessions : Write(w)

SpecWriters == InitWriters /\ [][NextWriters]_vars

(***************************************************************************)
(* MinimalChatBot._correct_text_intelligently: texts are sequences of      *)
(* characters                                                              *)
(***************************************************************************)
\* the characters \w matches
WordChars ==
    {"a", "b", "c", "d", "e", "f", "g", "h", "i", "j", "k", "l", "m", "n", "o", "p",
     "q", "r", "s", "t", "u", "v", "w", "x", "y", "z", "ñ", "í", "ó",
     "A", "B", "C", "D", "E", "F", "G", "H", "I", "J", "K", "L", "M", "N", "O", "P",
     "Q", "R", "S", "T", "U", "V", "W", "X", "Y", "Z", "Ñ", "Í",
     "0", "1", "2", "3", "4", "5", "6", "7", "8", "9", "_"}

\* the characters str.split() splits on
Whitespace == {" ", "\n", "\t"}

\* the replacements table, in the order of the dict; "optional" is the one
\* character under "?"
replacements ==
    <<[stem |-> <<"e", "m", "p", "l", "e", "a", "d", "o">>,
       optional |-> <<"s">>,
       replacement |-> <<"c", "o", "l", "a", "b", "o", "r", "a", "d", "o", "r", "e", "s">>],
      [stem |-> <<"t", "r", "a", "b", "a", "j", "a", "d", "o", "r", "e">>,
       optional |-> <<"s">>,
       replacement |-> <<"m", "i", "e", "m", "b", "r", "o", "s", " ", "d", "e", "l", " ", "e", "q", "u", "i", "p", "o">>],
      [stem |-> <<"p", "e", "r", "s", "o", "n", "a", "l">>,
       optional |-> <<>>,
       replacement |-> <<"e", "q", "u", "i", "p", "o">>],
      [stem |-> <<"c", "o", "m", "p", "a", "ñ", "í", "a">>,
       optional |-> <<>>,
       replacement |-> <<"e", "m", "p", "r", "e", "s", "a">>],
      [stem |-> <<"m", "u", "y", " ", "b", "u", "e", "n", "o">>,
       optional |-> <<>>,
       replacement |-> <<"e", "x", "c", "e", "l", "e", "n", "t", "e">>],
      [stem |-> <<"f", "e", "l", "i", "c", "i", "t", "a", "c", "i", "o", "n", "e", "s">>,
       optional |-> <<>>,
       replacement |-> <<"r", "e", "c", "o", "n", "o", "c", "i", "m", "i", "e", "n", "t", "o">>]>>

IsWordAt(text, i) == i \in 1..Len(text) /\ text[i] \in WordChars

\* \b just before character i
Boundary(text, i) == IsWordAt(text, i - 1) # IsWordAt(text, i)

\* the literal matched at character i with the case of the text as typed
StartsAtCaseSensitive(text, i, literal) ==
    /\ i + Len(literal) - 1 <= Len(text)
    /\ SubSeq(text, i, i + Len(literal) - 1) = literal

\* the literal matches at character i under re.IGNORECASE
StartsAt(text, i, literal) ==
    /\ i + Len(literal) - 1 <= Len(text)
    /\ Lower(SubSeq(text, i, i + Len(literal) - 1)) = Lower(literal)

\* the length of the match of \bstem(optional)?\b at character i, 0 for none:
\* the greedy "?" is tried first
MatchLen(text, i, pattern) ==
    LET greedy == pattern.stem \o pattern.optional
    IN  IF ~Boundary(text, i) THEN 0
        ELSE IF StartsAt(text, i, greedy) /\ Boundary(text, i + Len(greedy))
        THEN Len(greedy)
        ELSE IF StartsAt(text, i, pattern.stem) /\ Boundary(text, i + Len(pattern.stem))
        THEN Len(pattern.stem)
        ELSE 0

\* the characters from i on at which the pattern matches
MatchesFrom(text, i, pattern) == {j \in i..Len(text) : MatchLen(text, j, pattern) > 0}

RECURSIVE Scan(_, _, _)
\* re.sub from character i on: the leftmost match is replaced and the scan
\* goes on behind it, so that matches do not overlap
Scan(text, i, pattern) ==
    LET found == MatchesFrom(text, i, pattern)
    IN  IF found = {} THEN SubSeq(text, i, Len(text))
        ELSE LET j == CHOOSE first \in found : \A other \in found : first <= other
             IN  SubSeq(text, i, j - 1) \o pattern.replacement
                 \o Scan(text, j + MatchLen(text, j, pattern), pattern)

\* re.sub(pattern, replacement, corrected, flags=re.IGNORECASE)
re_sub(pattern, corrected) == Scan(corrected, 1, pattern)

RECURSIVE Replaced(_, _)
\* the for loop over replacements.items() from entry k on
Replaced(corrected, k) ==
    IF k > Len(replacements) THEN corrected
    ELSE Replaced(re_sub(replacements[k], corrected), k + 1)

\* len(text.split())
SplitCount(text) ==
    Cardinality({i \in 1..Len(text) :
        text[i] \notin Whitespace /\ (i = 1 \/ text[i - 1] \in Whitespace)})

ShortLimit == 30

\* "is too short" with the limit itself counted as short
TooShortInclusive(words) == words <= ShortLimit

\* len(corrected.split()) < 30
TooShort(words) == words < ShortLimit

\* the sentence appended to a short text
Gratitude ==
    <<" ", "G", "r", "a", "c", "i", "a", "s", " ", "p", "o", "r", " ", "s", "e", "r",
      " ", "p", "a", "r", "t", "e", " ", "d", "e", " ", "n", "u", "e", "s", "t", "r",
      "a", " ", "g", "r", "a", "n", " ", "f", "a", "m", "i", "l", "i", "a", " ", "C",
      "a", "s", "a", " ", "L", "i", "m", "p", "i", "a", " ", "y", " ", "p", "o", "r",
      " ", "s", "u", " ", "d", "e", "d", "i", "c", "a", "c", "i", "ó", "n", " ", "c",
      "o", "n", "s", "t", "a", "n", "t", "e", ".">>

\* _correct_text_intelligently(text)
_correct_text_intelligently(text) ==
    LET corrected == Replaced(text, 1)
    IN  IF TooShort(SplitCount(corrected)) THEN corrected \o Gratitude ELSE corrected

(***************************************************************************)
(* MinimalChatBot: generate_text, generate_multiple_options, correct_text  *)
(***************************************************************************)
\* texts a user may hand to correct_text
TextEmpleados ==
    <<"L", "o", "s", " ", "e", "m", "p", "l", "e", "a", "d", "o", "s", " ", "h", "i",
      "c", "i", "e", "r", "o", "n", " ", "u", "n", " ", "b", "u", "e", "n", " ", "t",
      "r", "a", "b", "a", "j", "o">>
TextBoundaries ==
    <<"E", "M", "P", "L", "E", "A", "D", "O", ",", " ", "E", "m", "p", "l", "e", "a",
      "d", "o", "s", ".", " ", "d", "e", "s", "e", "m", "p", "l", "e", "a", "d", "o",
      "s", " ", "e", "m", "p", "l", "e", "a", "d", "o", "s", "x", " ", "e", "m", "p",
      "l", "e", "a", "d", "o", "s", "-", "c", "l", "a", "v", "e">>
TextTable ==
    <<"M", "u", "y", " ", "b", "u", "e", "n", "o", " ", "e", "l", " ", "p", "e", "r",
      "s", "o", "n", "a", "l", " ", "d", "e", " ", "l", "a", " ", "C", "O", "M", "P",
      "A", "Ñ", "Í", "A", ",", " ", "f", "e", "l", "i", "c", "i", "t", "a", "c", "i",
      "o", "n", "e", "s", " ", "t", "r", "a", "b", "a", "j", "a", "d", "o", "r", "e",
      "s">>
TextSpacing ==
    <<"m", "u", "y", " ", " ", "b", "u", "e", "n", "o", " ", "p", "e", "r", "s", "o",
      "n", "a", "l", "m", "e", "n", "t", "e", "\n", "e", "l", " ", "t", "r", "a", "b",
      "a", "j", "a", "d", "o", "r">>

\* n one-letter words, each followed by a space
Filler(n) == [i \in 1..(2 * n) |-> IF i % 2 = 1 THEN "y" ELSE " "]

CorrectionInputs ==
    {TextEmpleados, TextBoundaries, TextTable, TextSpacing, <<>>,
     Filler(ShortLimit - 3) \o <<"t", "r", "a", "b", "a", "j", "a", "d", "o", "r", "e", "s">>,
     Filler(ShortLimit - 1) \o <<"e", "m", "p", "l", "e", "a", "d", "o">>,
     Filler(ShortLimit - 2) \o <<"E", "m", "p", "l", "e", "a", "d", "o", "s">>}

PromptLogros ==
    <<"f", "e", "l", "i", "c", "i", "t", "a", "c", "i", "o", "n", "e", "s", " ", "p",
      "o", "r", " ", "l", "o", "s", " ", "l", "o", "g", "r", "o", "s", " ", "d", "e",
      "l", " ", "e", "q", "u", "i", "p", "o">>

MinResultLen == 50

\* "result and ..." without the length test
SubstantialUnchecked(result) == Usable(result)

\* result and len(result.strip()) > 50
Substantial(result) == Usable(result) /\ StrLen(Strip(result.v)) > MinResultLen

\* what a MinimalChatBot method returns: the stripped text of a provider, or
\* a text written locally, character by character
FromProvider(result) == [kind |-> "provider", text |-> Strip(result.v), chars |-> <<>>]
Local(kind, chars) == [kind |-> kind, text |-> Text(0, 0, 0), chars |-> chars]
NoResult == Local("none", <<>>)

\* the character U+274C the failure messages begin with
CrossMark == "U+274C"

\* the message generate_text returns when no provider gave a result
FailureMessage ==
    <<CrossMark, " ", "N", "o", " ", "s", "e", " ", "p", "u", "d", "o", " ", "g", "e", "n",
      "e", "r", "a", "r", " ", "c", "o", "n", "t", "e", "n", "i", "d", "o", ".", " ",
      "V", "e", "r", "i", "f", "i", "c", "a", " ", "q", "u", "e", " ", "a", "l", " ",
      "m", "e", "n", "o", "s", " ", "u", "n", " ", "p", "r", "o", "v", "e", "e", "d",
      "o", "r", " ", "d", "e", " ", "I", "A", " ", "e", "s", "t", "é", " ", "c", "o",
      "n", "f", "i", "g", "u", "r", "a", "d", "o", " ", "c", "o", "r", "r", "e", "c",
      "t", "a", "m", "e", "n", "t", "e", ".">>

\* f"(U+274C) No se pudo generar la versión {label}. Verifica la configuración de IA."
OptionFailureMessage(label) ==
    <<CrossMark, " ", "N", "o", " ", "s", "e", " ", "p", "u", "d", "o", " ", "g", "e", "n", "e", "r", "a", "r", " ", "l", "a", " ", "v", "e", "r", "s", "i", "ó", "n", " ">>
    \o label \o
    <<".", " ", "V", "e", "r", "i", "f", "i", "c", "a", " ", "l", "a", " ", "c", "o",
      "n", "f", "i", "g", "u", "r", "a", "c", "i", "ó", "n", " ", "d", "e", " ", "I",
      "A", ".">>

\* the rotation of generate_multiple_options; temperatures in tenths
configurations ==
    <<[temp |-> 7, approach |-> "corporativo_inspiracional",
       label |-> <<"P", "r", "o", "f", "e", "s", "i", "o", "n", "a", "l">>],
      [temp |-> 9, approach |-> "narrativo_emocional",
       label |-> <<"E", "m", "o", "t", "i", "v", "a">>],
      [temp |-> 11, approach |-> "cercano_familiar",
       label |-> <<"C", "e", "r", "c", "a", "n", "a">>],
      [temp |-> 8, approach |-> "motivacional_energico",
       label |-> <<"M", "o", "t", "i", "v", "a", "c", "i", "o", "n", "a", "l">>],
      [temp |-> 10, approach |-> "reflexivo_profundo",
       label |-> <<"R", "e", "f", "l", "e", "x", "i", "v", "a">>]>>

\* configurations[i % len(configurations)], i counted from 0
ConfigurationFirst(i) == configurations[1]

ConfigurationAt(i) == configurations[(i % Len(configurations)) + 1]

\* the dict appended for option i (counted from 0) on the gateway's result
Option(i, result) ==
    LET config == ConfigurationAt(i)
    IN  [id |-> i + 1,
         label |-> config.label,
         text |-> IF Substantial(result) THEN FromProvider(result)
                  ELSE Local("failure", OptionFailureMessage(config.label)),
         temperature |-> config.temp,
         approach |-> config.approach]

\* a call of a MinimalChatBot method that has reached the gateway
\* max_tokens as each method hands it to the gateway
max_tokens(method) == IF method = "correct_text" THEN 1000 ELSE 800

ChatCall(method, text, preferred, num_options) ==
    [state |-> "calling", method |-> method, text |-> text, preferred |-> preferred,
     max_tokens |-> max_tokens(method),
     num_options |-> num_options, i |-> 0, options |-> <<>>, result |-> NoResult]

\* a session makes one call
ChatReady == chat.state = "idle"

\* the gateway call of the running method has ended
GatewayDone(method) ==
    /\ chat.state = "calling"
    /\ chat.method = method
    /\ pc = "idle"
    /\ outcome.kind \in {"returned", "raised"}

\* how the method ends on the gateway's outcome: an exception of the gateway
\* leaves the method
Ended(result) ==
    chat' = [chat EXCEPT !.state = IF outcome.kind = "raised" THEN "raised" ELSE "returned",
                         !.result = IF outcome.kind = "raised" THEN NoResult ELSE result]

\* correct_text(text, preferred_provider) up to the gateway call
correct_text_called(text, preferred) ==
    /\ ChatReady
    /\ Enter(preferred)
    /\ chat' = ChatCall("correct_text", text, preferred, 0)

\* correct_text called on its own
correct_text(text, preferred) ==
    /\ correct_text_called(text, preferred)
    /\ UNCHANGED <<adapterVars, configVars, feedbackVars, page>>

\* correct_text from the gateway's result on: lines 676-680
correct_text_returns ==
    /\ GatewayDone("correct_text")
    /\ Ended(IF Substantial(outcome.ret) THEN FromProvider(outcome.ret)
             ELSE Local("fallback", _correct_text_intelligently(chat.text)))
    /\ UNCHANGED <<gatewayVars, adapterVars, configVars, feedbackVars, page>>

\* generate_text(prompt, preferred_provider) up to the gateway call
generate_text_called(prompt, preferred) ==
    /\ ChatReady
    /\ Enter(preferred)
    /\ chat' = ChatCall("generate_text", prompt, preferred, 0)

\* generate_text called on its own
generate_text(prompt, preferred) ==
    /\ generate_text_called(prompt, preferred)
    /\ UNCHANGED <<adapterVars, configVars, feedbackVars, page>>

\* generate_text from the gateway's result on: lines 615-618
generate_text_returns ==
    /\ GatewayDone("generate_text")
    /\ Ended(IF Substantial(outcome.ret) THEN FromProvider(outcome.ret)
             ELSE Local("failure", FailureMessage))
    /\ UNCHANGED <<gatewayVars, adapterVars, configVars, feedbackVars, page>>

\* generate_multiple_options(user_input, num_options, preferred_provider) is
\* entered: options = []
generate_multiple_options_called(user_input, num_options, preferred) ==
    /\ ChatReady
    /\ pc = "idle"
    /\ chat' = [ChatCall("generate_multiple_options", user_input, preferred, num_options)
                    EXCEPT !.state = "loop"]
    /\ UNCHANGED gatewayVars

\* generate_multiple_options called on its own
generate_multiple_options(user_input, num_options, preferred) ==
    /\ generate_multiple_options_called(user_input, num_options, preferred)
    /\ UNCHANGED <<adapterVars, configVars, feedbackVars, page>>

\* one iteration of "for i in range(num_options)" up to the gateway call
OptionCall ==
    /\ chat.state = "loop"
    /\ chat.i < chat.num_options
    /\ Enter(chat.preferred)
    /\ chat' = [chat EXCEPT !.state = "calling"]
    /\ UNCHANGED <<adapterVars, configVars, feedbackVars, page>>

\* the rest of the iteration: the option is appended, lines 646-661
OptionAppend ==
    /\ GatewayDone("generate_multiple_options")
    /\ IF outcome.kind = "raised"
       THEN chat' = [chat EXCEPT !.state = "raised"]
       ELSE chat' = [chat EXCEPT !.state = "loop",
                                 !.i = @ + 1,
                                 !.options = Append(@, Option(chat.i, outcome.ret))]
    /\ UNCHANGED <<gatewayVars, adapterVars, configVars, feedbackVars, page>>

\* the loop is over: return options
OptionsReturn ==
    /\ chat.state = "loop"
    /\ chat.i >= chat.num_options
    /\ chat' = [chat EXCEPT !.state = "returned"]
    /\ UNCHANGED <<gatewayVars, adapterVars, configVars, feedbackVars, page>>

MaxOptions == 6

\* registries the chatbot runs on
ChatFiles ==
    {[fallback_order |-> <<"gemini", "groq">>,
      providers |-> [p \in {"gemini", "groq"} |->
                        Entry(p, TRUE, Calls(IF p = "gemini" THEN 1 ELSE 2))]],
     [fallback_order |-> <<"groq">>,
      providers |-> [p \in {"groq"} |-> Entry(p, TRUE, Calls(MaxOptions + 1))]],
     [fallback_order |-> <<"groq">>,
      providers |-> [p \in {"groq"} |-> Entry(p, FALSE, Calls(1))]]}

\* no method has been called
NoCall == [ChatCall("none", <<>>, NoProvider, 0) EXCEPT !.state = "idle"]

ChatKeys == {{}, {"GROQ_API_KEY"}, {"GEMINI_API_KEY", "GROQ_API_KEY"}}

InitChatBot ==
    /\ \E file \in ChatFiles, keys \in ChatKeys : Deployed(Cold(file, keys))
    /\ AdapterIdle
    /\ FeedbackIdle
    /\ chat = NoCall
    /\ page = <<>>
    /\ ConfigIdle

NextChatBot ==
    \/ \E text \in CorrectionInputs, preferred \in {NoProvider, "groq"} :
          correct_text(text, preferred)
    \/ correct_text_returns
    \/ \E preferred \in {NoProvider, "groq"} : generate_text(PromptLogros, preferred)
    \/ generate_text_returns
    \/ \E num_options \in 0..MaxOptions, preferred \in {NoProvider, "groq"} :
          generate_multiple_options(PromptLogros, num_options, preferred)
    \/ OptionCall
    \/ OptionAppend
    \/ OptionsReturn
    \/ TryPreferred
    \/ TryNext
    \/ ReturnNone

SpecChatBot == InitChatBot /\ [][NextChatBot]_vars

(***************************************************************************)
(* MinimalChatBot._select_creative_approach: random.choice is the choice   *)
(* of any element of its argument                                          *)
(***************************************************************************)
creative_approaches ==
    <<"narrativo_emocional", "corporativo_inspiracional", "cercano_familiar",
      "profesional_cálido", "motivacional_energico", "reflexivo_profundo">>

\* ["día", "celebr", "felicit", "reconoc"]
CelebrationWords ==
    {<<"d", "í", "a">>,
     <<"c", "e", "l", "e", "b", "r">>,
     <<"f", "e", "l", "i", "c", "i", "t">>,
     <<"r", "e", "c", "o", "n", "o", "c">>}

\* ["mujer", "madre", "padre", "familia"]
FamilyWords ==
    {<<"m", "u", "j", "e", "r">>,
     <<"m", "a", "d", "r", "e">>,
     <<"p", "a", "d", "r", "e">>,
     <<"f", "a", "m", "i", "l", "i", "a">>}

\* ["logro", "meta", "objetivo", "éxito"]
AchievementWords ==
    {<<"l", "o", "g", "r", "o">>,
     <<"m", "e", "t", "a">>,
     <<"o", "b", "j", "e", "t", "i", "v", "o">>,
     <<"é", "x", "i", "t", "o">>}

\* any(word in input_lower for word in words)
AnyWithin(words, input_lower) == \E word \in words : Within(word, input_lower)

\* the if/elif chain with the family keywords tested before the celebration
\* keywords
_select_creative_approach_family_first(user_input, approaches) ==
    LET input_lower == Lower(user_input)
    IN  IF AnyWithin(FamilyWords, input_lower)
        THEN {"cercano_familiar", "narrativo_emocional"}
        ELSE IF AnyWithin(CelebrationWords, input_lower)
        THEN {"narrativo_emocional", "corporativo_inspiracional"}
        ELSE IF AnyWithin(AchievementWords, input_lower)
        THEN {"motivacional_energico", "corporativo_inspiracional"}
        ELSE Range(approaches)

\* _select_creative_approach(user_input, approaches): the values it may return
_select_creative_approach(user_input, approaches) ==
    LET input_lower == Lower(user_input)
    IN  IF AnyWithin(CelebrationWords, input_lower)
        THEN {"narrativo_emocional", "corporativo_inspiracional"}
        ELSE IF AnyWithin(FamilyWords, input_lower)
        THEN {"cercano_familiar", "narrativo_emocional"}
        ELSE IF AnyWithin(AchievementWords, input_lower)
        THEN {"motivacional_energico", "corporativo_inspiracional"}
        ELSE Range(approaches)

\* words a request may be made of: keywords of each group in either case,
\* and words of no group
Fragments ==
    {<<"D", "í", "a">>,
     <<"C", "E", "L", "E", "B", "R", "A", "R">>,
     <<"f", "e", "l", "i", "c", "i", "t", "a", "r">>,
     <<"R", "e", "c", "o", "n", "o", "c", "e", "r">>,
     <<"m", "u", "j", "e", "r">>,
     <<"M", "A", "D", "R", "E">>,
     <<"p", "a", "d", "r", "e">>,
     <<"f", "a", "m", "i", "l", "i", "a">>,
     <<"l", "o", "g", "r", "o">>,
     <<"m", "e", "t", "a", "s">>,
     <<"o", "b", "j", "e", "t", "i", "v", "o">>,
     <<"É", "X", "I", "T", "O">>,
     <<"h", "o", "l", "a">>,
     <<"e", "q", "u", "i", "p", "o">>}

\* requests of one word and of two words
ApproachInputs ==
    Fragments \cup {a \o <<" ">> \o b : a \in Fragments, b \in Fragments}

\* _build_style_trained_prompt reaches line 711 with user_input
InitApproach ==
    /\ \E user_input \in ApproachInputs :
          chat = ChatCall("_select_creative_approach", user_input, NoProvider, 0)
    /\ page = <<>>
    /\ GatewayIdle
    /\ AdapterIdle
    /\ FeedbackIdle
    /\ ConfigIdle

\* approach = self._select_creative_approach(user_input, creative_approaches)
SelectApproach ==
    /\ chat.state = "calling"
    /\ chat.method = "_select_creative_approach"
    /\ \E approach \in _select_creative_approach(chat.text, creative_approaches) :
          chat' = [chat EXCEPT !.state = "returned",
                               !.result = Local("approach", approach)]
    /\ UNCHANGED <<gatewayVars, adapterVars, configVars, feedbackVars, page>>

NextApproach == SelectApproach

SpecApproach == InitApproach /\ [][NextApproach]_vars

(***************************************************************************)
(* src/app.py: what main() does when the button is pressed                 *)
(***************************************************************************)
\* the keyword parameters each MinimalChatBot method declares
Parameters(method) ==
    CASE method = "generate_text" -> {"prompt", "preferred_provider"}
      [] method = "generate_multiple_options" ->
            {"user_input", "num_options", "preferred_provider"}
      [] method = "correct_text" -> {"text", "preferred_provider"}
      [] OTHER -> {}

\* Python binds the call only when the method declares every keyword given;
\* otherwise the call raises TypeError
Binds(method, keywords) == keywords \subseteq Parameters(method)

CharsPerWord == 5

\* positions of the slider: 20 to 160 words, 60 at first
SliderWords == {20, 60, 160}

\* texts long enough for the button to be drawn
PageInputs == {TextEmpleados, TextTable}

\* the page before the button is pressed: nothing stored in session_state
PageIdle ==
    [state |-> "idle", task_type |-> "none", multiple |-> FALSE, words |-> 0,
     text_length_chars |-> 0, stored |-> FALSE, form |-> FALSE, error |-> <<>>]

\* result.startswith(U+274C): a text of a provider is taken not to begin so
StartsWithCross(result) ==
    result.kind # "provider" /\ Len(result.chars) > 0 /\ result.chars[1] = CrossMark

\* the button is pressed in mode "Generar": lines 379-383 and 547-551
ClickGenerate(user_input, words, multiple, selected_provider) ==
    LET text_length_chars == words * CharsPerWord
        method == IF multiple THEN "generate_multiple_options" ELSE "generate_text"
        pressed == [PageIdle EXCEPT !.task_type = "generate", !.multiple = multiple,
                                    !.words = words,
                                    !.text_length_chars = text_length_chars]
    IN  /\ page.state = "idle"
        /\ IF Binds(method, {"preferred_provider", "max_chars"})
           THEN /\ IF multiple
                   THEN generate_multiple_options_called(user_input, 3, selected_provider)
                   ELSE generate_text_called(user_input, selected_provider)
                /\ page' = [pressed EXCEPT !.state = "working"]
           ELSE /\ page' = [pressed EXCEPT !.state = "exception"]
                /\ UNCHANGED <<gatewayVars, chat>>
        /\ UNCHANGED <<adapterVars, configVars, feedbackVars>>

\* the button is pressed in mode "Corregir": line 553
ClickCorrect(user_input, selected_provider) ==
    /\ page.state = "idle"
    /\ IF Binds("correct_text", {"preferred_provider"})
       THEN /\ correct_text_called(user_input, selected_provider)
            /\ page' = [PageIdle EXCEPT !.state = "working", !.task_type = "correct"]
       ELSE /\ page' = [PageIdle EXCEPT !.state = "exception", !.task_type = "correct"]
            /\ UNCHANGED <<gatewayVars, chat>>
    /\ UNCHANGED <<adapterVars, configVars, feedbackVars>>

\* the single result is drawn: lines 555-580
Render ==
    /\ page.state = "working"
    /\ ~page.multiple
    /\ chat.state \in {"returned", "raised"}
    /\ page' = IF chat.state = "raised"
               THEN [page EXCEPT !.state = "exception"]
               ELSE IF ~StartsWithCross(chat.result)
               THEN [page EXCEPT !.state = "shown", !.stored = TRUE, !.form = TRUE]
               ELSE [page EXCEPT !.state = "error", !.error = chat.result.chars]
    /\ UNCHANGED <<gatewayVars, adapterVars, configVars, feedbackVars, chat>>

\* deployments of the page: providers that answer, and none that can
PageFiles ==
    {[fallback_order |-> <<"gemini", "groq">>,
      providers |-> [p \in {"gemini", "groq"} |->
                        Entry(p, TRUE, Calls(IF p = "gemini" THEN 1 ELSE 2))]],
     [fallback_order |-> <<"groq">>,
      providers |-> [p \in {"groq"} |-> Entry(p, FALSE, Calls(1))]]}

InitApp ==
    /\ \E file \in PageFiles, keys \in ChatKeys : Deployed(Cold(file, keys))
    /\ AdapterIdle
    /\ FeedbackIdle
    /\ chat = NoCall
    /\ page = PageIdle
    /\ ConfigIdle

NextApp ==
    \/ \E user_input \in PageInputs, words \in SliderWords, multiple \in BOOLEAN,
          selected_provider \in {NoProvider, "groq"} :
          ClickGenerate(user_input, words, multiple, selected_provider)
    \/ \E user_input \in PageInputs, selected_provider \in {NoProvider, "groq"} :
          ClickCorrect(user_input, selected_provider)
    \/ correct_text_returns
    \/ Render
    \/ TryPreferred
    \/ TryNext
    \/ ReturnNone

SpecApp == InitApp /\ [][NextApp]_vars

(***************************************************************************)
(* ConfigManager and the construction of AIProviderManager from the        *)
(* registry file                                                           *)
(***************************************************************************)
ConfigFiles == {"ai_providers.json", "company_context.json", "learning_data.json"}

EmptyRegistry == [fallback_order |-> <<>>, providers |-> <<>>]

\* a parsed JSON document: its top-level type, which document it is, the type
\* of its "providers" member and, for a registry, its content
Value(top, tag, providers, file) ==
    [top |-> top, tag |-> tag, providers |-> providers, file |-> file]

\* {}
EmptyValue == Value("dict", "empty", "missing", EmptyRegistry)

\* the hardcoded default of each document; the default registry is cut down
\* to two of its six providers
DefaultValue(filename) ==
    IF filename = "ai_providers.json"
    THEN Value("dict", "default", "dict",
               [fallback_order |-> <<"gemini", "groq">>,
                providers |-> [p \in {"gemini", "groq"} |-> Entry(p, TRUE, Calls(1))]])
    ELSE Value("dict", "default", "missing", EmptyRegistry)

\* what a path of the config directory holds
Missing == [state |-> "missing", value |-> EmptyValue]
Undecodable == [state |-> "undecodable", value |-> EmptyValue]
NotJson == [state |-> "not_json", value |-> EmptyValue]
Json(value) == [state |-> "json", value |-> value]

\* what load_json returns or that it raised
Got(value) == [raised |-> FALSE, value |-> value]
Failed == [raised |-> TRUE, value |-> EmptyValue]

\* load_json on a path that holds content: open() raises FileNotFoundError
\* and json.load raises JSONDecodeError, both caught; bytes that are not
\* UTF-8 make the read raise UnicodeDecodeError, which is not caught
Loaded(content) ==
    CASE content.state = "missing" -> Got(EmptyValue)
      [] content.state = "undecodable" -> Failed
      [] content.state = "not_json" -> Got(EmptyValue)
      [] OTHER -> Got(content.value)

\* "path.exists()" taken to mean that the file parses
ExistsAndParses(content) == content.state = "json"

\* path.exists()
Exists(content) == content.state # "missing"

\* the directory after _ensure_default_configs
Ensured(files) ==
    [filename \in ConfigFiles |->
        IF Exists(files[filename]) THEN files[filename]
        ELSE Json(DefaultValue(filename))]

Stored(op, filename, result, before) ==
    [op |-> op, filename |-> filename, result |-> result, before |-> before,
     booted |-> TRUE]

\* ConfigManager.__init__: _ensure_default_configs()
_ensure_default_configs ==
    /\ pc = "unconstructed"
    /\ disk' = Ensured(disk)
    /\ store' = Stored("ensure", "ai_providers.json", Got(EmptyValue), disk)
    /\ UNCHANGED <<gatewayVars, adapterVars, feedbackVars, chatVars>>

\* ConfigManager.load_json(filename)
LoadJson(filename) ==
    /\ pc = "unconstructed"
    /\ store.booted
    /\ store' = Stored("load", filename, Loaded(disk[filename]), disk)
    /\ UNCHANGED <<disk, gatewayVars, adapterVars, feedbackVars, chatVars>>

\* the default order over an empty provider map
Reset ==
    [fallback_order |-> <<"gemini", "groq", "huggingface", "together", "cohere",
                          "openai">>,
     providers |-> <<>>]

\* AIProviderManager.__init__ on what load_json gave: a top-level list has no
\* .get, a "providers" that is a list, absent or empty is reset
Constructed(loaded) ==
    IF loaded.raised \/ loaded.value.top # "dict"
    THEN [raised |-> TRUE, providers_config |-> Reset]
    ELSE IF loaded.value.providers # "dict"
    THEN [raised |-> FALSE, providers_config |-> Reset]
    ELSE [raised |-> FALSE, providers_config |-> __init__(loaded.value.file)]

\* AIProviderManager(config_manager)
Construct ==
    /\ pc = "unconstructed"
    /\ store.booted
    /\ LET loaded == Loaded(disk["ai_providers.json"])
           made == Constructed(loaded)
       IN  /\ providers_config' = made.providers_config
           /\ pc' = IF made.raised THEN "crashed" ELSE "idle"
           /\ store' = Stored("construct", "ai_providers.json", loaded, disk)
    /\ UNCHANGED <<environ, rate_limits, now, preferred_provider, idx, attempts,
                   outcome, passed, invoked>>
    /\ UNCHANGED <<disk, adapterVars, feedbackVars, chatVars>>

BasicExamples == 4

\* a learning-data document that holds three examples
ThreeExamples == Value("dict", "three_examples", "missing", EmptyRegistry)

\* len(learning_data.get("examples", [])): the hardcoded default holds the
\* four basic examples, the other documents of the model have no "examples"
Examples(value) ==
    CASE value.tag = "default" -> BasicExamples
      [] value.tag = "three_examples" -> 3
      [] OTHER -> 0

\* "if len(examples) < 4"
Fewer(count) == count < BasicExamples

\* MinimalChatBot._load_initial_examples, the last step of
\* MinimalChatBot.__init__: a top-level list has no .get
_load_initial_examples ==
    /\ pc = "idle"
    /\ store.op = "construct"
    /\ LET loaded == Loaded(disk["learning_data.json"])
           raised == loaded.raised \/ loaded.value.top # "dict"
       IN  /\ pc' = IF raised THEN "crashed_examples" ELSE "idle"
           /\ disk' = IF ~raised /\ Fewer(Examples(loaded.value))
                      THEN Ensured(disk) ELSE disk
           /\ store' = Stored("examples", "learning_data.json", loaded, disk)
    /\ UNCHANGED <<providers_config, environ, rate_limits, now, preferred_provider,
                   idx, attempts, outcome, passed, invoked>>
    /\ UNCHANGED <<adapterVars, feedbackVars, chatVars>>

\* get_status()["configured_count"]
configured_count ==
    Cardinality({name \in DOMAIN providers_config.providers :
        /\ providers_config.providers[name].is_dict
        /\ providers_config.providers[name].enabled
        /\ HasKey(providers_config.providers[name].api_key_env)})

\* what ai_providers.json may hold
RegistryContents ==
    {Missing, Undecodable, NotJson, Json(DefaultValue("ai_providers.json")),
     Json(Value("dict", "custom", "list", EmptyRegistry)),
     Json(Value("dict", "custom", "missing", EmptyRegistry)),
     Json(Value("dict", "custom", "empty", EmptyRegistry)),
     Json(Value("list", "custom", "missing", EmptyRegistry))}

\* what the other documents may hold
DocumentContents ==
    {Missing, Undecodable, NotJson,
     Json(Value("dict", "custom", "missing", EmptyRegistry)),
     Json(Value("list", "custom", "missing", EmptyRegistry))}

\* what learning_data.json may hold
LearningContents ==
    DocumentContents
    \cup {Json(ThreeExamples), Json(DefaultValue("learning_data.json"))}

InitConfig ==
    /\ disk \in [ConfigFiles -> RegistryContents \cup LearningContents]
    /\ disk["ai_providers.json"] \in RegistryContents
    /\ disk["company_context.json"] \in DocumentContents
    /\ disk["learning_data.json"] \in LearningContents
    /\ store = [Stored("none", "ai_providers.json", Got(EmptyValue), disk)
                   EXCEPT !.booted = FALSE]
    /\ providers_config = Reset
    /\ environ = {"GEMINI_API_KEY", "GROQ_API_KEY"}
    /\ rate_limits = NoLimits
    /\ now = 0
    /\ passed = [p \in ProviderNames \cup VendorNames |-> 0]
    /\ invoked = [p \in ProviderNames \cup VendorNames |-> 0]
    /\ pc = "unconstructed"
    /\ preferred_provider = NoProvider
    /\ idx = 1
    /\ attempts = <<>>
    /\ outcome = [kind |-> "none", ret |-> PyNone]
    /\ AdapterIdle
    /\ FeedbackIdle
    /\ ChatIdle

NextConfig ==
    \/ _ensure_default_configs
    \/ \E filename \in ConfigFiles : LoadJson(filename)
    \/ Construct
    \/ _load_initial_examples
    \/ \E preferred \in {NoProvider, "gemini"} : GenerateText(preferred)
    \/ TryPreferred
    \/ TryNext
    \/ ReturnNone

SpecConfig == InitConfig /\ [][NextConfig]_vars

(***************************************************************************)
(* Properties of the provider gateway                                      *)
(***************************************************************************)
FallbackOrder == providers_config.fallback_order

NotPreferred(name) == name # preferred_provider

\* the preferred provider when it is given and listed, then the other names of
\* fallback_order as listed
CandidateSequence ==
    (IF preferred_provider # NoProvider /\ preferred_provider \in Range(FallbackOrder)
     THEN <<preferred_provider>> ELSE <<>>)
    \o SelectSeq(FallbackOrder, NotPreferred)

AttemptedNames == [i \in 1..Len(attempts) |-> attempts[i].name]

Finished == pc = "idle" /\ outcome.kind \in {"returned", "raised"}

\* the provider is in the map, enabled, and its credential variable is set
Eligible(name) ==
    /\ name \in DOMAIN providers_config.providers
    /\ providers_config.providers[name].is_dict
    /\ providers_config.providers[name].enabled
    /\ providers_config.providers[name].api_key_env \in environ

\* the configured calls_per_minute of a provider, 60 when unset
Ceiling(name) ==
    LET rate_limit == providers_config.providers[name].rate_limit
    IN  IF rate_limit.kind = "calls" THEN rate_limit.calls_per_minute ELSE 60

\* C1: in one generate_text call the providers are attempted in the order
\* preferred (when given and listed), then the rest of fallback_order as listed;
\* every attempt before the last one gave nothing usable, a usable result ends
\* the call and is what the call returns, and None is returned only after the
\* whole sequence was attempted.
C1_AttemptOrder ==
    /\ Len(attempts) <= Len(CandidateSequence)
    /\ AttemptedNames = SubSeq(CandidateSequence, 1, Len(attempts))
    /\ \A i \in 1..(Len(attempts) - 1) : ~Usable(attempts[i].ret)
    /\ (Len(attempts) > 0 /\ Usable(attempts[Len(attempts)].ret)) =>
            /\ Finished
            /\ outcome = Returned(attempts[Len(attempts)].ret)
    /\ (Finished /\ outcome.kind = "returned") =>
            IF Usable(outcome.ret)
            THEN Len(attempts) > 0 /\ attempts[Len(attempts)].ret = outcome.ret
            ELSE outcome.ret = PyNone /\ Len(attempts) = Len(CandidateSequence)

\* the preferred provider, listed second, answered first and the call ended
\* before the provider listed first was attempted
C1_Witness ==
    /\ Finished
    /\ Usable(outcome.ret)
    /\ Len(FallbackOrder) = 2
    /\ preferred_provider = FallbackOrder[2]
    /\ FallbackOrder[1] # FallbackOrder[2]
    /\ Eligible(FallbackOrder[1])
    /\ AttemptedNames = <<preferred_provider>>

PreferredUnavailable ==
    /\ preferred_provider \in DOMAIN providers_config.providers
    /\ providers_config.providers[preferred_provider].is_dict
    /\ \/ ~providers_config.providers[preferred_provider].enabled
       \/ providers_config.providers[preferred_provider].api_key_env \notin environ

\* C2: when the preferred provider is disabled or has no credential, no adapter
\* is invoked for it, and the call returns the result of the first provider of
\* fallback_order that is enabled, has a credential, is not rate-limited and
\* answers usably: every provider listed before it was skipped as unavailable,
\* was rate-limited or failed; None is returned when there is none.
C2_PreferredUnavailable ==
    PreferredUnavailable =>
        /\ \A i \in 1..Len(attempts) :
            /\ attempts[i].name = preferred_provider =>
                    attempts[i].step \in {"disabled", "no_api_key"}
            /\ attempts[i].step \in {"adapter", "rate_limited", "no_adapter"} <=>
                    Eligible(attempts[i].name)
            /\ Usable(attempts[i].ret) => attempts[i].step = "adapter"
        /\ Finished =>
            LET rest == SelectSeq(FallbackOrder, NotPreferred)
                tried == SelectSeq(AttemptedNames, NotPreferred)
            IN  /\ outcome.kind = "returned"
                /\ tried = SubSeq(rest, 1, Len(tried))
                /\ \A i \in 1..(Len(attempts) - 1) : ~Usable(attempts[i].ret)
                /\ IF Usable(outcome.ret)
                   THEN /\ attempts[Len(attempts)].ret = outcome.ret
                        /\ Eligible(attempts[Len(attempts)].name)
                        /\ attempts[Len(attempts)].name = rest[Len(tried)]
                   ELSE Len(tried) = Len(rest)

\* the preferred provider is listed first and unavailable; the provider listed
\* after it answered
C2_Witness ==
    /\ Finished
    /\ PreferredUnavailable
    /\ Len(FallbackOrder) = 2
    /\ FallbackOrder[1] = preferred_provider
    /\ Len(attempts) = 2
    /\ attempts[2].name = FallbackOrder[2]
    /\ attempts[2].step = "adapter"
    /\ outcome = Returned(attempts[2].ret)
    /\ Usable(outcome.ret)

\* The step of C3: once a provider has passed the rate-limit check calls_per_minute times in
\* the current minute-bucket, a further attempt on it in that bucket is
\* rate-limited: _try_provider returns None, no adapter is invoked, no call is
\* counted, and generate_text goes on with its loop.
C3_Step ==
    \A name \in DOMAIN providers_config.providers :
        ( /\ Eligible(name)
          /\ passed[name] >= Ceiling(name)
          /\ now' = now
          /\ Len(attempts') = Len(attempts) + 1
          /\ attempts'[Len(attempts')].name = name )
        => /\ attempts'[Len(attempts')].step = "rate_limited"
           /\ attempts'[Len(attempts')].ret = PyNone
           /\ invoked'[name] = invoked[name]
           /\ passed'[name] = passed[name]
           /\ pc' = "loop"
           /\ outcome' = outcome

\* C3, as a property of every step: an attempt on a provider that has used up
\* its calls_per_minute in the current bucket is rate-limited.
C3_RateLimitedAfterCeiling == [][C3_Step]_vars

\* a provider that passed the check as often as its ceiling allows was then
\* skipped as rate-limited, and the provider listed after it was attempted
C3_Witness ==
    /\ Len(attempts) = 2
    /\ attempts[1].step = "rate_limited"
    /\ passed[attempts[1].name] = Ceiling(attempts[1].name)
    /\ Ceiling(attempts[1].name) >= 2
    /\ attempts[2].step = "adapter"

\* C4: every call count held in rate_limits is at most the provider's
\* calls_per_minute (60 when the setting is absent).
C4_CountWithinCeiling ==
    \A name \in DOMAIN rate_limits :
        \A key \in DOMAIN rate_limits[name] :
            rate_limits[name][key] <= Ceiling(name)

\* the provider without a rate_limit setting holds 60 calls in one bucket and
\* the next attempt on it was rate-limited
C4_Witness ==
    /\ "groq" \in DOMAIN rate_limits
    /\ providers_config.providers["groq"].rate_limit.kind = "unset"
    /\ now \in DOMAIN rate_limits["groq"]
    /\ rate_limits["groq"][now] = 60
    /\ Len(attempts) > 0
    /\ attempts[Len(attempts)].step = "rate_limited"

\* C5: generate_text never raises to its caller, whatever the registry holds.
C5_NeverRaises == outcome.kind # "raised"

\* C7: within one generate_text call no provider name is attempted twice.
C7_AttemptedAtMostOnce ==
    \A i, j \in 1..Len(attempts) :
        (i # j /\ attempts[i].step = "adapter" /\ attempts[j].step = "adapter") =>
            attempts[i].name # attempts[j].name

\* C6: an adapter returns text only for status 200 with the vendor's envelope
\* holding a text field whose stripped text is longer than 20 characters, and
\* then returns that stripped text; for every other response (network error,
\* timeout, other status, body that is not JSON or lacks the field or has
\* another shape, short text) it returns None, and it never raises.
C6_AdapterResult ==
    adapter_out.state = "returned" =>
        LET r == adapter_in.r
            good == /\ r.transport = "ok"
                    /\ r.status = 200
                    /\ r.envelope = EnvelopeOf(adapter_in.vendor)
                    /\ r.shape = "complete"
                    /\ r.text.core > 20
        IN  /\ adapter_out.ret.t # "exception"
            /\ IF good
               THEN adapter_out.ret = Str(Text(0, r.text.core, 0))
               ELSE adapter_out.ret = PyNone

\* the vendor answered 200 with its envelope but without the text field, and
\* the adapter returned None
C6_Witness ==
    /\ adapter_out = [state |-> "returned", ret |-> PyNone]
    /\ adapter_in.vendor = "cohere"
    /\ adapter_in.r.transport = "ok"
    /\ adapter_in.r.status = 200
    /\ adapter_in.r.envelope = "cohere"
    /\ adapter_in.r.shape = "no_text_field"

(***************************************************************************)
(* Properties of the feedback recorder                                     *)
(***************************************************************************)
History == learning_data.feedback_history

\* C8: after add_feedback the persisted feedback_history holds at most 100
\* entries, and they are the most recent ones of all entries ever inserted, in
\* insertion order and unchanged, the entry of the last call being the last.
C8_MostRecentHundred ==
    fb_call.count > 0 =>
        LET n == Len(fb_log)
            k == IF n <= 100 THEN n ELSE 100
        IN  /\ learning_data.file = "ok"
            /\ learning_data.has_feedback_history
            /\ Len(History) = k
            /\ \A i \in 1..k : History[i] = fb_log[n - k + i]
            /\ History[k].timestamp = fb_call.clock
            /\ History[k].rating = fb_call.input.rating
            /\ History[k].comments = fb_call.input.comments

\* a full log received one more entry: the oldest was dropped, the rest moved up
C8_Witness ==
    /\ fb_call.count = 2
    /\ Len(fb_log) = 102
    /\ Len(History) = 100
    /\ History[1] = OldEntry(3)
    /\ History[100].timestamp = 102

\* C9: every entry add_feedback persists has a rating from 1 to 5.
C9_RatingValidated ==
    \A i \in 1..Len(History) : History[i].rating \in 1..5

\* C10 as claimed: rating 5 with 80 words gives "medium", with 300 words "long".
C10_Original ==
    (fb_call.count > 0 /\ fb_call.input.rating = 5) =>
        /\ WordCount(fb_call.input.generated) = 80 =>
                learning_data.user_preferences.preferred_length = "medium"
        /\ WordCount(fb_call.input.generated) = 300 =>
                learning_data.user_preferences.preferred_length = "long"

\* C10 amended: add_feedback with rating 5 and a generated text of 80 words sets
\* preferred_length to "short"; with a generated text of 300 words, to "long".
C10_LengthBucket ==
    (fb_call.count > 0 /\ fb_call.input.rating = 5) =>
        /\ learning_data.has_user_preferences
        /\ WordCount(fb_call.input.generated) = 80 =>
                learning_data.user_preferences.preferred_length = "short"
        /\ WordCount(fb_call.input.generated) = 300 =>
                learning_data.user_preferences.preferred_length = "long"

\* a call with rating 5 and 80 words turned a preference of "long" into "short"
C10_Witness ==
    /\ fb_call.count > 0
    /\ fb_call.input.rating = 5
    /\ WordCount(fb_call.input.generated) = 80
    /\ fb_call.before.preferred_length = "long"
    /\ learning_data.user_preferences.preferred_length = "short"
(***************************************************************************)
(* Properties of the learned preferences                                   *)
(***************************************************************************)
Preferences == load_json(learning_data).user_preferences

\* C11: after an add_feedback call with rating >= 4, preferred_length is
\* "short" for fewer than 100 words of generated text, "long" for more than
\* 250 and "medium" from 100 to 250 inclusive, whatever it was before.
C11_LengthFromWordCount ==
    (fb_call.count > 0 /\ fb_call.input.rating >= 4) =>
        LET w == WordCount(fb_call.input.generated)
        IN  /\ w < 100 => Preferences.preferred_length = "short"
            /\ w > 250 => Preferences.preferred_length = "long"
            /\ (100 <= w /\ w <= 250) => Preferences.preferred_length = "medium"

\* a call at a boundary word count changed a preference that was not "medium"
C11_Witness ==
    /\ fb_call.count > 0
    /\ fb_call.input.rating >= 4
    /\ WordCount(fb_call.input.generated) \in {100, 250}
    /\ fb_call.before.preferred_length \in {"short", "long"}
    /\ Preferences.preferred_length = "medium"

\* a comment holds one of the fixed positive keywords, whatever its case
HoldsKeyword(comments) ==
    \E k \in 1..Len(positive_keywords) : Within(positive_keywords[k], Lower(comments))

\* the entries the add_feedback calls of this process appended to the log
OwnEntries == (Len(fb_log) - fb_call.count + 1)..Len(fb_log)

\* the entries of this process's calls that may add their comment
Praising(comments) ==
    {i \in OwnEntries :
        /\ fb_log[i].rating >= 4
        /\ fb_log[i].comments = comments
        /\ HoldsKeyword(comments)}

PositiveElements ==
    IF Preferences.has_positive_elements THEN Preferences.positive_elements ELSE <<>>

\* C12: positive_elements holds no comment twice, holds only comments of calls
\* with rating >= 4 that contain a positive keyword, and holds each of them.
C12_PositiveElementsOnce ==
    /\ \A i, j \in 1..Len(PositiveElements) :
           PositiveElements[i] = PositiveElements[j] => i = j
    /\ \A i \in 1..Len(PositiveElements) : Praising(PositiveElements[i]) # {}
    /\ \A i \in OwnEntries :
           Praising(fb_log[i].comments) # {} =>
               \E j \in 1..Len(PositiveElements) : PositiveElements[j] = fb_log[i].comments

\* a comment with several keywords was submitted twice and is listed
C12_Witness ==
    /\ Cardinality(Praising(CommentSeveral)) >= 2
    /\ \E j \in 1..Len(PositiveElements) : PositiveElements[j] = CommentSeveral

(***************************************************************************)
(* Properties of MinimalChatBot                                            *)
(***************************************************************************)
\* the method has ended, by a return or by an exception
ChatEnded(method) == chat.method = method /\ chat.state \in {"returned", "raised"}

\* the places where word stands in text as a whole word, in any case
WholeWord(text, word) ==
    {i \in 1..Len(text) :
        /\ Boundary(text, i)
        /\ i + Len(word) - 1 <= Len(text)
        /\ Lower(SubSeq(text, i, i + Len(word) - 1)) = word
        /\ Boundary(text, i + Len(word))}

Empleado == <<"e", "m", "p", "l", "e", "a", "d", "o">>
Empleados == <<"e", "m", "p", "l", "e", "a", "d", "o", "s">>
Colaboradores == <<"c", "o", "l", "a", "b", "o", "r", "a", "d", "o", "r", "e", "s">>

EndsWith(text, tail) ==
    Len(text) >= Len(tail) /\ SubSeq(text, Len(text) - Len(tail) + 1, Len(text)) = tail

\* C13: when the gateway gives nothing usable, correct_text returns the local
\* correction: no whole word "empleado" or "empleados" is left, each of them
\* has become "colaboradores", and the gratitude sentence ends the result
\* exactly when the substituted text has fewer than 30 words.
C13_LocalCorrection ==
    (ChatEnded("correct_text") /\ ~Substantial(outcome.ret)) =>
        LET substituted == Replaced(chat.text, 1)
            result == chat.result.chars
        IN  /\ chat.state = "returned"
            /\ chat.result.kind = "fallback"
            /\ WholeWord(substituted, Empleado) \cup WholeWord(substituted, Empleados) = {}
            /\ Cardinality(WholeWord(substituted, Colaboradores)) =
                   Cardinality(WholeWord(chat.text, Colaboradores))
                   + Cardinality(WholeWord(chat.text, Empleado))
                   + Cardinality(WholeWord(chat.text, Empleados))
            /\ SplitCount(substituted) < 30 =>
                   result = substituted \o Gratitude /\ EndsWith(result, Gratitude)
            /\ SplitCount(substituted) >= 30 =>
                   result = substituted /\ ~EndsWith(result, Gratitude)

\* the text of the example was corrected locally after every provider failed
C13_Witness ==
    /\ ChatEnded("correct_text")
    /\ chat.text = TextEmpleados
    /\ outcome.ret = PyNone
    /\ Len(attempts) = 2
    /\ WholeWord(chat.result.chars, Colaboradores) # {}
    /\ EndsWith(chat.result.chars, Gratitude)

\* C14: correct_text always returns: the stripped text of a provider when it
\* is longer than 50 characters, the local correction otherwise, never the
\* failure message and never an exception.
C14_AlwaysAText ==
    ChatEnded("correct_text") =>
        /\ chat.state = "returned"
        /\ chat.result.kind \in {"provider", "fallback"}
        /\ chat.result.kind = "provider" =>
               /\ outcome.ret.t = "str"
               /\ chat.result.text = Strip(outcome.ret.v)
               /\ StrLen(chat.result.text) > 50
        /\ chat.result.kind = "fallback" =>
               /\ Len(chat.result.chars) > 0
               /\ chat.result.chars # FailureMessage
               /\ chat.result.chars[1] # CrossMark

\* a provider answered with a text too short to be taken and the local
\* correction was returned
C14_Witness ==
    /\ ChatEnded("correct_text")
    /\ outcome.ret.t = "str"
    /\ StrLen(Strip(outcome.ret.v)) <= 50
    /\ chat.result.kind = "fallback"

\* C15: generate_multiple_options returns as many options as asked for;
\* option i counted from 0 has id i+1 and the temperature and approach of
\* entry i mod 5 of the rotation, so five options in a row differ in approach
\* and the sixth repeats the first.
C15_OptionsRotation ==
    (ChatEnded("generate_multiple_options")) =>
        /\ chat.state = "returned"
        /\ Len(chat.options) = chat.num_options
        /\ \A k \in 1..Len(chat.options) :
               /\ chat.options[k].id = k
               /\ chat.options[k].temperature = configurations[((k - 1) % 5) + 1].temp
               /\ chat.options[k].approach = configurations[((k - 1) % 5) + 1].approach
        /\ \A j, k \in 1..Len(chat.options) :
               (j < k /\ k - j < 5) => chat.options[j].approach # chat.options[k].approach
        /\ \A k \in 6..Len(chat.options) :
               chat.options[k].approach = chat.options[k - 5].approach

\* six options were returned, the first from a provider and the sixth not
C15_Witness ==
    /\ ChatEnded("generate_multiple_options")
    /\ chat.num_options = 6
    /\ Len(chat.options) = 6
    /\ chat.options[1].text.kind = "provider"
    /\ chat.options[6].text.kind = "failure"
    /\ chat.options[6].approach = "corporativo_inspiracional"

(***************************************************************************)
(* Properties of the page                                                  *)
(***************************************************************************)
\* the request of the page has ended: nothing is working any more
PageEnded(task_type) == page.task_type = task_type /\ page.state # "working"

\* no provider of the deployment can be tried
NoneAvailable ==
    \A name \in Range(FallbackOrder) :
        \/ name \notin DOMAIN providers_config.providers
        \/ ~providers_config.providers[name].enabled
        \/ providers_config.providers[name].api_key_env \notin environ

\* C16: a generation request with a target of W words reaches the gateway
\* with a maximum output size of W*5 characters and ends with a result or
\* the failure message, not with an exception.
C16_LengthPassedThrough ==
    PageEnded("generate") =>
        /\ page.state \in {"shown", "error"}
        /\ page.text_length_chars = page.words * 5
        /\ chat.method \in {"generate_text", "generate_multiple_options"}
        /\ chat.max_tokens = page.text_length_chars

\* C17: when no provider can be used, a generation request ends with the
\* failure message shown as an error, nothing stored and no feedback form.
C17_FailureShownAsError ==
    (PageEnded("generate") /\ ~page.multiple /\ NoneAvailable) =>
        /\ page.state = "error"
        /\ page.error = FailureMessage
        /\ ~page.stored
        /\ ~page.form

(***************************************************************************)
(* Properties of the config store                                          *)
(***************************************************************************)
\* C18: load_json returns {} without raising when the file is missing or does
\* not hold valid JSON, returns a valid document as parsed, and leaves the
\* directory as it was.
C18_LoadNeverRaises ==
    store.op = "load" =>
        LET content == disk[store.filename]
        IN  /\ content.state \in {"missing", "undecodable", "not_json"} =>
                   store.result = Got(EmptyValue)
            /\ content.state = "json" => store.result = Got(content.value)
            /\ disk = store.before

\* C19: _ensure_default_configs writes the default of each document that is
\* absent, leaves every document that exists as it is whatever it holds, and
\* run again it changes nothing.
C19_BootstrapIdempotent ==
    store.op = "ensure" =>
        /\ \A filename \in ConfigFiles :
               IF store.before[filename].state = "missing"
               THEN disk[filename] = Json(DefaultValue(filename))
               ELSE disk[filename] = store.before[filename]
        /\ Ensured(disk) = disk

\* the bootstrap ran a second time over a directory in which it had written
\* one default and found one file that does not parse
C19_Witness ==
    /\ store.op = "ensure"
    /\ store.before = disk
    /\ disk["learning_data.json"] = Json(DefaultValue("learning_data.json"))
    /\ disk["company_context.json"] = NotJson
    /\ disk["ai_providers.json"] = Undecodable

\* the registry file is unreadable, or its "providers" is a list, absent or
\* empty
WronglyShaped(content) ==
    \/ content.state \in {"undecodable", "not_json"}
    \/ /\ content.state = "json"
       /\ content.value.top = "dict"
       /\ content.value.providers \in {"list", "missing", "empty"}

\* C20: on a wrongly shaped registry the construction of AIProviderManager
\* does not raise and leaves the default order over an empty provider map;
\* from there generate_text returns None without calling an adapter and
\* configured_count is 0.
C20_RegistrySelfHeals ==
    (pc # "unconstructed" /\ WronglyShaped(disk["ai_providers.json"])) =>
        /\ pc # "crashed"
        /\ providers_config = Reset
        /\ configured_count = 0
        /\ \A i \in 1..Len(attempts) : attempts[i].step = "not_in_providers"
        /\ Finished => outcome = Returned(PyNone)

(***************************************************************************)
(* Properties of the skipped providers and of the rate-limit window        *)
(***************************************************************************)
\* the last _try_provider call of the running generate_text call
LastAttempt == attempts[Len(attempts)]

\* _try_provider left at lines 317-331: the name is not in the provider map,
\* or the provider is disabled, or its credential variable is not set
Unavailable(name) ==
    \/ name \notin DOMAIN providers_config.providers
    \/ /\ providers_config.providers[name].is_dict
       /\ \/ ~providers_config.providers[name].enabled
          \/ providers_config.providers[name].api_key_env \notin environ

C21_Step ==
    (Len(attempts') = Len(attempts) + 1 /\ Unavailable(attempts'[Len(attempts')].name))
    => /\ attempts'[Len(attempts')].step \in {"not_in_providers", "disabled", "no_api_key"}
       /\ attempts'[Len(attempts')].ret = PyNone
       /\ rate_limits' = rate_limits
       /\ invoked' = invoked
       /\ passed' = passed
       /\ outcome' = outcome
       /\ pc' = "loop"

\* C21: an attempt on a name that is absent from the provider map, or on a
\* provider that is disabled or has no credential, returns None without an
\* adapter invocation and without an exception, leaves rate_limits as it was,
\* and generate_text goes on with its loop.
C21_SkippedSilently == [][C21_Step]_vars

\* a provider was counted and failed, then a provider without a credential was
\* skipped: the window of the first is all that rate_limits holds
C21_Witness ==
    /\ Len(attempts) = 2
    /\ attempts[1].step = "adapter"
    /\ attempts[2].step = "no_api_key"
    /\ attempts[1].name # attempts[2].name
    /\ DOMAIN rate_limits = {attempts[1].name}
    /\ outcome = Returned(PyNone)

\* _try_provider reached _is_rate_limited and the check returned
Checked(step) == step \in {"rate_limited", "no_adapter", "adapter"}

C22_Step ==
    (Len(attempts') = Len(attempts) + 1 /\ Checked(attempts'[Len(attempts')].step))
    => LET name == attempts'[Len(attempts')].name
           before == IF name \in DOMAIN rate_limits THEN rate_limits[name] ELSE NoLimits
       IN  /\ name \in DOMAIN rate_limits'
           /\ DOMAIN rate_limits'[name] \subseteq {now - 1, now}
           /\ (now - 1) \in DOMAIN before =>
                /\ (now - 1) \in DOMAIN rate_limits'[name]
                /\ rate_limits'[name][now - 1] = before[now - 1]

\* C22: after a rate-limit check of a provider at minute-bucket m the window of
\* that provider holds no bucket other than m-1 and m; the bucket m-1 is kept
\* with its count, every older bucket is gone.
C22_WindowOfTwoBuckets == [][C22_Step]_vars

\* one generate_text call counted the same provider twice, two or more minutes
\* apart: the second check found no call in its bucket, and the bucket the
\* first check had counted in is gone
C22_Witness ==
    /\ Len(attempts) = 2
    /\ attempts[1].name = attempts[2].name
    /\ attempts[1].step = "adapter"
    /\ attempts[2].step = "adapter"
    /\ Ceiling(attempts[1].name) >= 2
    /\ rate_limits[attempts[1].name] = [key \in {now} |-> 1]

(***************************************************************************)
(* Properties of concurrent feedback                                       *)
(***************************************************************************)
\* the position of the k-th event of kind op in the log of file operations
EventAt(op, k) ==
    LET hits == {i \in 1..Len(writers.events) : writers.events[i][2] = op}
    IN  CHOOSE i \in hits : Cardinality({j \in hits : j <= i}) = k

\* two calls were made and both have returned
TwoCallsDone ==
    /\ Len(writers.events) = 6
    /\ \A w \in Sessions : writers.calls[w].at = "resting"

\* the entry of the call that loaded k-th
EntryOf(k) == fb_log[Len(fb_log) - 2 + k]

Holds(doc, entry) ==
    /\ doc.file = "ok"
    /\ \E i \in 1..Len(doc.feedback_history) : doc.feedback_history[i] = entry

\* C23: of two add_feedback calls that both load before either saves, the
\* document left on disk is the one the later writer saved, with that
\* writer's entry and without the other's; of two calls that run one after
\* the other, both entries are on disk.
C23_LastWriterWins ==
    TwoCallsDone =>
        LET last == writers.events[6][1]
            firstLoader == writers.events[EventAt("load", 1)][1]
            lastEntry == IF last = firstLoader THEN EntryOf(1) ELSE EntryOf(2)
            otherEntry == IF last = firstLoader THEN EntryOf(2) ELSE EntryOf(1)
        IN  /\ EventAt("load", 2) < EventAt("open", 1) =>
                /\ learning_data = writers.calls[last].data
                /\ Holds(learning_data, lastEntry)
                /\ ~Holds(learning_data, otherEntry)
            /\ EventAt("load", 2) > EventAt("write", 1) =>
                /\ Holds(learning_data, EntryOf(1))
                /\ Holds(learning_data, EntryOf(2))

(***************************************************************************)
(* Properties of the start-up of MinimalChatBot                            *)
(***************************************************************************)
\* MinimalChatBot.__init__ has returned
ChatBotConstructed == store.op = "examples" /\ pc # "crashed_examples"

\* C24: once MinimalChatBot is constructed, learning_data.json parses and holds
\* at least the 4 basic examples, whatever it held at start-up.
C24_ExamplesRestored ==
    ChatBotConstructed =>
        /\ disk["learning_data.json"].state = "json"
        /\ Examples(disk["learning_data.json"].value) >= BasicExamples

(***************************************************************************)
(* Properties of the choice of the creative approach                       *)
(***************************************************************************)
\* _select_creative_approach has returned approach for the input
Selected(approach) ==
    /\ chat.state = "returned"
    /\ chat.method = "_select_creative_approach"
    /\ chat.result = Local("approach", approach)

\* the lower-cased input contains a keyword of the group
Mentions(words) == \E word \in words : Within(word, Lower(chat.text))

\* C25: an input that contains a celebration keyword gets narrativo_emocional
\* or corporativo_inspiracional whatever else it contains; without one, an
\* input with a family keyword gets cercano_familiar or narrativo_emocional;
\* without either, an input with an achievement keyword gets
\* motivacional_energico or corporativo_inspiracional; the other approaches
\* are returned only for inputs with no keyword of any group.
C25_ApproachByKeyword ==
    \A approach \in Range(creative_approaches) :
        Selected(approach) =>
            IF Mentions(CelebrationWords)
            THEN approach \in {"narrativo_emocional", "corporativo_inspiracional"}
            ELSE IF Mentions(FamilyWords)
            THEN approach \in {"cercano_familiar", "narrativo_emocional"}
            ELSE IF Mentions(AchievementWords)
            THEN approach \in {"motivacional_energico", "corporativo_inspiracional"}
            ELSE TRUE

\* the input names a family member and, in upper case, a celebration keyword,
\* and got the corporate approach
C25_Witness ==
    /\ Selected("corporativo_inspiracional")
    /\ chat.text = <<"M", "A", "D", "R", "E", " ", "C", "E", "L", "E", "B", "R", "A", "R">>

(***************************************************************************)
(* Properties of the call counter                                          *)
(***************************************************************************)
\* provider_limits.get(minute_key, 0) in the rate limits held
CountAt(limits, name, minute_key) ==
    IF name \in DOMAIN limits /\ minute_key \in DOMAIN limits[name]
    THEN limits[name][minute_key] ELSE 0

C26_Step ==
    /\ Len(attempts') = Len(attempts) + 1 =>
        LET name == attempts'[Len(attempts')].name
            step == attempts'[Len(attempts')].step
        IN  /\ step = "adapter" =>
                /\ CountAt(rate_limits', name, now) = CountAt(rate_limits, name, now) + 1
                /\ invoked'[name] = invoked[name] + 1
            /\ step # "adapter" => invoked' = invoked
            /\ step = "rate_limited" =>
                CountAt(rate_limits', name, now) = CountAt(rate_limits, name, now)
            /\ \A other \in DOMAIN rate_limits' \ {name} :
                CountAt(rate_limits', other, now) = CountAt(rate_limits, other, now)
    /\ \A name \in DOMAIN invoked' : invoked'[name] <= CountAt(rate_limits', name, now')

\* C26: each adapter invocation comes with exactly one increment of the
\* provider's counter for the current bucket, whether the adapter then returns
\* text or nothing; an attempt that is rate-limited leaves the counter as it
\* was; the adapter invocations of a provider in the current bucket never
\* exceed its counter.
C26_CounterCountsAttempts == [][C26_Step]_vars

\* the first attempt reached the adapter and failed, its count was kept, and
\* the second attempt on the same provider was rate-limited at that count
C26_Witness ==
    /\ Len(attempts) = 2
    /\ attempts[1].name = attempts[2].name
    /\ attempts[1].step = "adapter"
    /\ attempts[1].ret = PyNone
    /\ attempts[2].step = "rate_limited"
    /\ CountAt(rate_limits, attempts[1].name, now) = Ceiling(attempts[1].name)
    /\ invoked[attempts[1].name] = Ceiling(attempts[1].name)

(***************************************************************************)
(* Properties of a preferred provider that fallback_order does not list    *)
(***************************************************************************)
\* preferred_provider is given and is not an element of fallback_order
PreferredUnlisted ==
    /\ preferred_provider # NoProvider
    /\ preferred_provider \notin Range(FallbackOrder)

\* C27: generate_text attempts no provider that fallback_order does not list;
\* with a preferred provider that is not listed the call attempts the names of
\* fallback_order as listed, from the first on, returns the first usable
\* result and returns None only after the last name, as it does without a
\* preferred provider.
C27_UnlistedNeverAttempted ==
    /\ \A i \in 1..Len(attempts) : attempts[i].name \in Range(FallbackOrder)
    /\ PreferredUnlisted =>
        /\ pc # "preferred"
        /\ AttemptedNames = SubSeq(FallbackOrder, 1, Len(attempts))
        /\ pc = "loop" => idx = Len(attempts) + 1
        /\ \A i \in 1..(Len(attempts) - 1) : ~Usable(attempts[i].ret)
        /\ (Finished /\ outcome.kind = "returned") =>
            IF Usable(outcome.ret)
            THEN outcome.ret = attempts[Len(attempts)].ret
            ELSE outcome.ret = PyNone /\ Len(attempts) = Len(FallbackOrder)

\* the preferred provider is in the provider map, enabled and holds a
\* credential, but is not listed: the call went through the whole
\* fallback_order without it and returned None
C27_Witness ==
    /\ Finished
    /\ PreferredUnlisted
    /\ Eligible(preferred_provider)
    /\ Len(FallbackOrder) >= 1
    /\ Len(attempts) = Len(FallbackOrder)
    /\ outcome = Returned(PyNone)

(***************************************************************************)
(* Properties of the two length thresholds                                 *)
(***************************************************************************)
\* the gateway returned a text that an adapter took (more than 20 characters)
\* and that MinimalChatBot does not take (at most 50 after strip)
TakenThenTurnedDown ==
    /\ pc = "idle"
    /\ outcome.kind = "returned"
    /\ Usable(outcome.ret)
    /\ StrLen(Strip(outcome.ret.v)) <= MinResultLen

\* the candidates of the running gateway call that were not attempted
NotAttempted == Len(CandidateSequence) - Len(attempts)

\* C28: when the first provider that returns a text returns one of 21 to 50
\* characters, the gateway call ends with that attempt and the providers
\* listed after it are not attempted; generate_text then returns the failure
\* message, correct_text the local correction, and generate_multiple_options
\* appends a failed option.
C28_ThresholdsDiffer ==
    (TakenThenTurnedDown /\ chat.state \in {"returned", "loop"}) =>
        /\ StrLen(outcome.ret.v) \in (PlausibleLen + 1)..MinResultLen
        /\ attempts[Len(attempts)].ret = outcome.ret
        /\ \A i \in 1..(Len(attempts) - 1) : ~Usable(attempts[i].ret)
        /\ AttemptedNames = SubSeq(CandidateSequence, 1, Len(attempts))
        /\ chat.method = "generate_text" =>
                chat.result = Local("failure", FailureMessage)
        /\ chat.method = "correct_text" =>
                chat.result = Local("fallback", _correct_text_intelligently(chat.text))
        /\ chat.method = "generate_multiple_options" =>
                /\ Len(chat.options) = chat.i
                /\ chat.options[chat.i].text =
                       Local("failure",
                             OptionFailureMessage(ConfigurationAt(chat.i - 1).label))

\* generate_text returned the failure message after the provider listed first
\* answered with 50 characters; the provider listed second, enabled and with
\* its credential, was not attempted
C28_Witness ==
    /\ TakenThenTurnedDown
    /\ chat.state = "returned"
    /\ chat.method = "generate_text"
    /\ chat.result = Local("failure", FailureMessage)
    /\ StrLen(outcome.ret.v) = MinResultLen
    /\ Len(attempts) = 1
    /\ NotAttempted = 1
    /\ Eligible(CandidateSequence[2])

(***************************************************************************)
(* Properties of feedback with a low rating                                *)
(***************************************************************************)
\* positive_elements of a user_preferences value, [] when the key is absent
Elements(preferences) ==
    IF preferences.has_positive_elements THEN preferences.positive_elements ELSE <<>>

C29_Step ==
    fb_call'.count = fb_call.count + 1 =>
        LET before == load_json(learning_data)
            rating == fb_call'.input.rating
            history == learning_data'.feedback_history
        IN  /\ learning_data'.has_feedback_history
            /\ Len(history) > 0
            /\ history[Len(history)].rating = rating
            /\ history[Len(history)].comments = fb_call'.input.comments
            /\ history[Len(history)].timestamp = fb_call'.clock
            /\ learning_data'.has_user_preferences
            /\ (rating < 4 /\ before.has_user_preferences) =>
                    learning_data'.user_preferences = before.user_preferences
            /\ ( \/ learning_data'.user_preferences.preferred_length
                        # before.user_preferences.preferred_length
                 \/ Elements(learning_data'.user_preferences)
                        # Elements(before.user_preferences) )
               => rating >= 4

\* C29: an add_feedback call with a rating below 4 on a document that has
\* user_preferences leaves user_preferences as it was and appends its entry
\* to feedback_history; preferred_length and positive_elements change only
\* in calls with a rating of 4 or more.
C29_LowRatingKeepsPreferences == [][C29_Step]_vars

\* a call with rating 3, a text of 300 words and a praising comment came
\* after a call that had set preferred_length to "short": its entry is in the
\* history and the preferences are what they were
C29_Witness ==
    /\ fb_call.count >= 2
    /\ fb_call.input = Call(3, 300, CommentExcelente)
    /\ fb_call.before.preferred_length = "short"
    /\ Preferences = fb_call.before
    /\ Elements(Preferences) = <<>>
    /\ History[Len(History)].rating = 3
    /\ History[Len(History)].timestamp = fb_call.clock

(***************************************************************************)
(* src/app.py: the feedback form under a displayed result.  Streamlit runs *)
(* the script once per event; a widget answers an event only in a run that *)
(* draws it, and session_state lasts from run to run.                      *)
(***************************************************************************)
\* results the page has on display: texts that correct_text returned
ShownResults ==
    {[original |-> "original", generated |-> Words(80), task_type |-> "correct"],
     [original |-> "original", generated |-> Words(300), task_type |-> "correct"]}

\* what the user sets in the form: the slider (3 at first) and the comment
FormInputs == {<<3, NoComment>>, <<5, CommentExcelente>>}

\* "feedback_" + abs(hash(generated_text + original_text + task_type)), taken
\* to differ for the results on display
content_id(generated_text, original_text, task_type) ==
    <<generated_text, original_text, task_type>>

\* get_feedback_state that finds no flag set
get_feedback_state_never(session_state, id) == FALSE

\* get_feedback_state(content_id): the flag, False when the key is absent
get_feedback_state(session_state, id) ==
    IF id \in DOMAIN session_state THEN session_state[id] ELSE FALSE

\* set_feedback_state(content_id, sent); get_feedback_state has stored the
\* key when this is called
set_feedback_state(session_state, id, sent) ==
    [key \in DOMAIN session_state \cup {id} |->
        IF key = id THEN sent ELSE session_state[key]]

\* one run of render_simple_feedback for a result; event is the widget that
\* caused the run ("display" when it is none of this function's widgets)
render_simple_feedback(result, event, rating, comment) ==
    LET id == content_id(result.generated, result.original, result.task_type)
        sent == get_feedback_state(page.session_state, id)
        stored == set_feedback_state(page.session_state, id, sent)
        drawn == [page EXCEPT !.shown = id, !.event = event, !.message = "none"]
        input == [original |-> result.original, generated |-> result.generated,
                  task_type |-> result.task_type, rating |-> rating,
                  comments |-> comment]
        timestamp == fb_call.clock + 1
    IN  IF sent
        THEN /\ page' = [drawn EXCEPT
                            !.view = "sent",
                            !.session_state =
                                IF event = "reset"
                                THEN set_feedback_state(stored, id, FALSE)
                                ELSE stored]
             /\ UNCHANGED feedbackVars
        ELSE IF event # "submit"
        THEN /\ page' = [drawn EXCEPT !.view = "form", !.session_state = stored]
             /\ UNCHANGED feedbackVars
        ELSE IF ~page.writable
        THEN /\ page' = [drawn EXCEPT !.view = "form", !.session_state = stored,
                                      !.message = "error"]
             /\ UNCHANGED feedbackVars
        ELSE /\ fb_call.count < MaxFeedbackCalls
             /\ learning_data' = Recorded(learning_data, input, timestamp)
             /\ fb_call' = [count |-> fb_call.count + 1, clock |-> timestamp,
                            input |-> input,
                            before |-> load_json(learning_data).user_preferences]
             /\ fb_log' = Append(fb_log, FeedbackEntry(input.original, input.generated,
                                     input.rating, input.comments, timestamp,
                                     input.task_type))
             /\ UNCHANGED writers
             /\ page' = [drawn EXCEPT !.view = "form", !.message = "success",
                                      !.session_state =
                                          set_feedback_state(stored, id, TRUE)]

\* a run that draws the result for another reason than the form's widgets
Display(result) ==
    /\ render_simple_feedback(result, "display", 3, NoComment)
    /\ UNCHANGED <<gatewayVars, adapterVars, configVars, chat>>

\* the form on the screen is submitted
SubmitForm(result, rating, comment) ==
    /\ page.view = "form"
    /\ page.shown = content_id(result.generated, result.original, result.task_type)
    /\ render_simple_feedback(result, "submit", rating, comment)
    /\ UNCHANGED <<gatewayVars, adapterVars, configVars, chat>>

\* the button "Enviar feedback adicional" on the screen is pressed
ClickReset(result) ==
    /\ page.view = "sent"
    /\ page.shown = content_id(result.generated, result.original, result.task_type)
    /\ render_simple_feedback(result, "reset", 3, NoComment)
    /\ UNCHANGED <<gatewayVars, adapterVars, configVars, chat>>

\* a new session: nothing in session_state, nothing drawn; the learning data
\* are as earlier sessions left them, and config/learning_data.json can or
\* cannot be opened for writing
InitForm ==
    /\ learning_data \in {Document(0), Document(2), Document(MaxHistory)}
    /\ fb_log = load_json(learning_data).feedback_history
    /\ fb_call = [count |-> 0, clock |-> Len(learning_data.feedback_history),
                  input |-> Call(3, 120, NoComment),
                  before |-> load_json(learning_data).user_preferences]
    /\ writers = <<>>
    /\ \E writable \in BOOLEAN :
          page = [session_state |-> <<>>, shown |-> <<>>, view |-> "none",
                  event |-> "none", message |-> "none", writable |-> writable]
    /\ chat = <<>>
    /\ GatewayIdle
    /\ AdapterIdle
    /\ ConfigIdle

NextForm ==
    \/ \E result \in ShownResults : Display(result)
    \/ \E result \in ShownResults, input \in FormInputs :
          SubmitForm(result, input[1], input[2])
    \/ \E result \in ShownResults : ClickReset(result)

SpecForm == InitForm /\ [][NextForm]_vars

(***************************************************************************)
(* Properties of the feedback form                                         *)
(***************************************************************************)
\* the feedback-sent flag of a content as session_state holds it
Sent(state, id) == id \in DOMAIN state.session_state /\ state.session_state[id]

C30_Step ==
    \A result \in ShownResults :
        LET id == content_id(result.generated, result.original, result.task_type)
            recorded == /\ fb_call'.count = fb_call.count + 1
                        /\ fb_call'.input.generated = result.generated
        IN  /\ (~Sent(page, id) /\ Sent(page', id)) =>
                    /\ recorded
                    /\ page'.message = "success"
                    /\ History'[Len(History')].generated_text = result.generated
                    /\ History'[Len(History')].timestamp = fb_call'.clock
            /\ recorded => (~Sent(page, id) /\ Sent(page', id))
            /\ (Sent(page, id) /\ ~Sent(page', id)) =>
                    /\ page'.event = "reset"
                    /\ page'.shown = id
                    /\ page.view = "sent"
            /\ (page'.message = "error" /\ page'.shown = id) =>
                    /\ ~Sent(page', id)
                    /\ learning_data' = learning_data
                    /\ fb_log' = fb_log
            /\ (Sent(page, id) /\ page'.shown = id) =>
                    /\ page'.view = "sent"
                    /\ learning_data' = learning_data

\* C30: in a session the feedback-sent flag of a content is false at first,
\* turns true only in a run in which add_feedback returned for that content,
\* is false after a run in which add_feedback raised, and turns false again
\* only when the button for additional feedback is pressed; a run that finds
\* the flag true draws no form and records nothing, so an entry for a content
\* is recorded only in a run that finds its flag false.
C30_FlagFollowsFeedback ==
    /\ \A result \in ShownResults :
          ~Sent(page, content_id(result.generated, result.original, result.task_type))
    /\ [][C30_Step]_vars

\* the form that was still on the screen after a recorded feedback was
\* submitted once more: the run found the flag true, drew the confirmation
\* and recorded nothing
C30_Witness ==
    \E result \in ShownResults :
        LET id == content_id(result.generated, result.original, result.task_type)
        IN  /\ Sent(page, id)
            /\ page.shown = id
            /\ page.event = "submit"
            /\ page.view = "sent"
            /\ fb_call.count = 1
            /\ fb_log[Len(fb_log)].generated_text = result.generated
            /\ History = fb_log

====
